---- MODULE Spec2Model ----
(***************************************************************************)
(* Admission-control core of the txt backend: the per-nickname limiter     *)
(* rateLimit (the better-sqlite3 revision), the ban lifecycle checkBan     *)
(* with the moderation actions, post creation with the RSS caches, and     *)
(* the per-credential daily quota validateApiKey.                          *)
(*                                                                         *)
(* Node runs every handler on one thread: a synchronous handler is one     *)
(* atomic action; an async handler is cut at each await of pool.query      *)
(* into "the statement executes in the database" and "the continuation     *)
(* runs", and other requests may take steps in between.                    *)
(***************************************************************************)
EXTENDS Integers, Sequences, FiniteSets, TLC

----------------------------------------------------------------------------
(* Bounds of the model *)

\* number of whole windows (or days) the clock may run through
MaxPeriods == 1
\* milliseconds past a period boundary the clock may show
MaxOffset == 1
\* rateLimit calls followed for one key in one window beyond the cap
MaxDenied == 2
\* requests in flight at once
MaxReqs == 2
\* moderation ban actions followed
MaxBans == 2
\* rows inserted into posts
MaxPosts == 2
\* API requests followed
MaxCalls == 4

----------------------------------------------------------------------------
(* Program constants *)

\* part_000:50  now - row.window_start > 60000
WINDOW == 60000
\* part_000:55  row.count >= 20
CAP == 20

\* keys of the limiter
Nicks == {"ann", "bob"}

\* nicknames as requests and moderators spell them
Names == {"ann", "Ann", "bob"}

\* values of the x-api-key header: an issued key and one never issued
ApiKeys == {"txt_1", "txt_x"}

\* the tokens a client may send to /verify-rng and /api/rng-link
Tokens == {"tk1", "tk2"}

\* String.prototype.toLowerCase on those
Lower(n) == IF n = "Ann" THEN "ann" ELSE n

\* request slots
Reqs == 1..MaxReqs

\* the instants Date.now() shows: around each multiple of a period
Instants(period) ==
  {i * period + j : i \in 0..MaxPeriods, j \in 0..MaxOffset}

VARIABLES
  now,          \* Date.now()
  rate_limits,  \* table rate_limits: nickname -> row (or no row)
  rlChecks,     \* history: rateLimit calls per key since its window_start
  rlAdmitted,   \* history: calls admitted per key since its window_start
  rlLast,       \* history: result of the last rateLimit call per key
  rlLog,        \* history: calls admitted per key at each instant it logs
  rlDenied,     \* history: the key has been denied a call
  bans,         \* table bans: nickname -> row (or no row)
  banSeq,       \* history: number of rows written to bans so far
  banDeletes,   \* history: DELETEs of checkBan run per row it had read
  users,        \* table users: the registered (lower-case) nicknames
  posts,        \* table posts: rows [id, nickname]
  postSeq,      \* the SERIAL behind posts.id
  rssGlobal,    \* rssFeedCache.global: [data, timestamp]
  rssUsers,     \* rssFeedCache.users: the Map, as its entries in insertion order
  postCache,    \* postCache of GET /api/posts: [data, timestamp]
  published,    \* history: ids of the posts whose POST /api/posts has answered
  rssInvalid,   \* history: rssFeedCache.global was invalidated after its
                \* last write
  listWritten,  \* history: postCache has been written
  api_keys,     \* table api_keys: key -> row (or no row)
  qAdmitted,    \* history: requests passed on to the handler, per key, since
                \* the last reset of its row
  qCalls,       \* history: API requests received so far
  qLog,         \* history: requests passed on per key, by their Date.now()
  ownerKeys,    \* table api_keys: owner -> number of rows of that owner
  pendingTokens,\* part_002:98  the tokens registered and not yet used
  rngLinks,     \* history: links that succeeded per token since /verify-rng
                \* last registered it
  req           \* the requests in flight: slot -> handler, position, locals

limVars == <<rate_limits, rlChecks, rlAdmitted, rlLast, rlLog, rlDenied>>
banVars == <<bans, banSeq, banDeletes>>
postVars == <<users, posts, postSeq>>
histVars == <<published, rssInvalid, listWritten>>
cacheVars == <<rssGlobal, rssUsers, postCache, histVars>>
quotaVars ==
  <<api_keys, qAdmitted, qCalls, qLog, ownerKeys, pendingTokens, rngLinks>>
vars == <<now, limVars, banVars, postVars, cacheVars, quotaVars, req>>

\* a table row that is not there
NoRow == [present |-> FALSE, count |-> 0, window_start |-> 0]
\* (reason and banned_at are payload no decision reads; ver stands for them:
\* it tells one written row from the next)
NoBan == [present |-> FALSE, banned_until |-> 0, ver |-> 0]

NoKey == [present |-> FALSE, requests_today |-> 0, last_reset |-> 0,
          last_used |-> 0]

\* no feed: data of a cache slot before its first write, rows not yet read
NoFeed == [some |-> FALSE, ids |-> {}]

\* a free request slot
IdleReq ==
  [kind |-> "idle", pc |-> "idle", nick |-> "", row |-> NoBan,
   expired |-> FALSE, ban |-> NoBan, status |-> "none",
   t |-> 0, feed |-> NoFeed, postId |-> 0, failedAt |-> "",
   key |-> NoKey, seen |-> 0, reset |-> FALSE, queried |-> FALSE,
   content |-> <<>>, word |-> 0, at |-> 0, argType |-> "string",
   profane |-> FALSE, tried |-> 0, token |-> ""]

\* a request is between its first step and its response
InFlight == \E r \in Reqs : req[r].kind # "idle"

\* no request stays in flight from one period into a later one: while one
\* is in flight the clock moves by milliseconds only
ClockMove(t) == t > now /\ (InFlight => t - now <= MaxOffset)

\* a new request takes the first free slot (the slots are interchangeable)
FreeSlot(r) ==
  /\ req[r].kind = "idle"
  /\ \A q \in Reqs : q < r => req[q].kind # "idle"

\* no response is waiting to leave: a finished request leaves its slot
\* before anything else happens (Finish touches nothing but its own slot)
Settled == \A r \in Reqs : req[r].pc # "done"

\* the state of each component before its first request
LimiterAtStart ==
  /\ rate_limits = [k \in Nicks |-> NoRow]
  /\ rlChecks = [k \in Nicks |-> 0]
  /\ rlAdmitted = [k \in Nicks |-> 0]
  /\ rlLast = [k \in Nicks |-> FALSE]
  /\ rlLog = [k \in Nicks |-> [t \in {} |-> 0]]
  /\ rlDenied = [k \in Nicks |-> FALSE]

BansAtStart ==
  /\ bans = [n \in Names |-> NoBan]
  /\ banSeq = 0
  /\ banDeletes = [v \in 1..MaxBans |-> 0]

\* the accounts exist (POST /api/nickname stores them lower-cased)
PostsAtStart ==
  /\ users = {"ann", "bob"}
  /\ posts = {}
  /\ postSeq = 0

\* part_001:63  const postCache = { data: [], timestamp: 0 }
PostCacheAtStart == postCache = [data |-> {}, timestamp |-> 0]

\* server.js:47-50
CachesAtStart ==
  /\ rssGlobal = [data |-> NoFeed, timestamp |-> 0]
  /\ rssUsers = <<>>
  /\ PostCacheAtStart
  /\ published = {}
  /\ rssInvalid = FALSE
  /\ listWritten = FALSE

\* no credential has been issued
QuotaAtStart ==
  /\ api_keys = [k \in ApiKeys |-> NoKey]
  /\ qAdmitted = [k \in ApiKeys |-> 0]
  /\ qCalls = 0
  /\ qLog = [k \in ApiKeys |-> [t \in {} |-> 0]]
  /\ ownerKeys = [o \in Nicks |-> 0]
  /\ pendingTokens = {}
  /\ rngLinks = [tk \in Tokens |-> 0]

ReqsAtStart == req = [r \in Reqs |-> IdleReq]

----------------------------------------------------------------------------
(* SlidingWindowLimiter: rateLimit of the sqlite revision *)

\* variant: the window runs out a millisecond early
RateWindowExpired_atWindow(row, t) ==
  ~row.present \/ t - row.window_start >= WINDOW

\* line 50: no row, or the window has run out
RateWindowExpired(row, t) ==
  ~row.present \/ t - row.window_start > WINDOW

\* variant: the cap test off by one
RateAtCap_offByOne(row) == row.count > CAP

\* line 55: the cap test of a row inside its window
RateAtCap(row) == row.count >= CAP

\* what rateLimit returns for a row read at time t
RateLimitResult(row, t) ==
  IF RateWindowExpired(row, t) THEN TRUE ELSE ~RateAtCap(row)

\* variant: the count is bumped before the cap test returns
RateLimitRow_noCapGuard(row, t) ==
  IF RateWindowExpired(row, t)
    THEN [present |-> TRUE, count |-> 1, window_start |-> t]
    ELSE [row EXCEPT !.count = row.count + 1]

\* variant: a denied call starts the window again
RateLimitRow_denialRestarts(row, t) ==
  IF RateWindowExpired(row, t)
    THEN [present |-> TRUE, count |-> 1, window_start |-> t]
    ELSE IF RateAtCap(row) THEN [row EXCEPT !.window_start = t]
         ELSE [row EXCEPT !.count = row.count + 1]

\* the row rateLimit leaves in the table
RateLimitRow(row, t) ==
  IF RateWindowExpired(row, t)
    THEN [present |-> TRUE, count |-> 1, window_start |-> t]
    ELSE IF RateAtCap(row) THEN row
         ELSE [row EXCEPT !.count = row.count + 1]

\* cap minus the stored count
Remaining(k) == CAP - rate_limits[k].count

\* rateLimit(nickname): synchronous, so one step
rateLimit(k) ==
  LET row == rate_limits[k]
      fresh == RateWindowExpired(row, now)
      ok == RateLimitResult(row, now)
  IN /\ (fresh \/ rlChecks[k] < CAP + MaxDenied)
     /\ rate_limits' = [rate_limits EXCEPT ![k] = RateLimitRow(row, now)]
     /\ rlChecks' = [rlChecks EXCEPT ![k] = IF fresh THEN 1 ELSE @ + 1]
     /\ rlAdmitted' = [rlAdmitted EXCEPT
                         ![k] = IF fresh THEN 1 ELSE IF ok THEN @ + 1 ELSE @]
     /\ rlLast' = [rlLast EXCEPT ![k] = ok]
     /\ rlLog' = [rlLog EXCEPT ![k] =
                    IF ok /\ now \in DOMAIN @ THEN [@ EXCEPT ![now] = @ + 1]
                    ELSE @]
     /\ rlDenied' = [rlDenied EXCEPT ![k] = @ \/ ~ok]
     /\ UNCHANGED <<now, banVars, postVars, cacheVars, quotaVars, req>>

\* the clock moves on between requests
TickLimiter ==
  /\ \E t \in Instants(WINDOW) : t > now /\ now' = t
  /\ UNCHANGED <<limVars, banVars, postVars, cacheVars, quotaVars, req>>

InitLimiter ==
  /\ now = 0
  /\ LimiterAtStart
  /\ BansAtStart
  /\ PostsAtStart
  /\ CachesAtStart
  /\ QuotaAtStart
  /\ ReqsAtStart

NextLimiter ==
  \/ \E k \in Nicks : rateLimit(k)
  \/ TickLimiter

SpecLimiter == InitLimiter /\ [][NextLimiter]_vars

\* a step of rateLimit(k)
IsRateLimitStep(k) ==
  <<rate_limits[k], rlChecks[k]>>' # <<rate_limits[k], rlChecks[k]>>

C1_InWindow ==
  \A k \in Nicks :
    rate_limits[k].present =>
      /\ rlChecks[k] \in 1..CAP =>
            rlLast[k] /\ Remaining(k) = CAP - rlChecks[k]
      /\ rlChecks[k] > CAP =>
            ~rlLast[k] /\ Remaining(k) = 0

C1_AfterWindow ==
  \A k \in Nicks :
    ( /\ IsRateLimitStep(k)
      /\ rate_limits[k].present
      /\ now - rate_limits[k].window_start > WINDOW ) =>
    /\ rlLast'[k]
    /\ rate_limits'[k] = [present |-> TRUE, count |-> 1, window_start |-> now]
    /\ Remaining(k)' = CAP - 1

\* C1: from no record, the n-th rateLimit call for a key inside one window
\* (n = 1..20) is allowed and leaves remaining = 20 - n (19 down to 0); the
\* 21st and later calls in that window are denied; the first call made more
\* than 60000 ms after window_start is allowed and leaves count = 1,
\* window_start = now, remaining = 19.
C1_WindowOfTwenty == []C1_InWindow /\ [][C1_AfterWindow]_vars

\* C1 witness: one key was denied its 21st call while another key has been
\* reset into a later window
C1_Witness ==
  \E k, j \in Nicks :
    /\ rlChecks[k] = CAP + 1 /\ ~rlLast[k] /\ rate_limits[k].count = CAP
    /\ rate_limits[j].present /\ rate_limits[j].window_start > WINDOW
    /\ rate_limits[j].count = 1 /\ rlLast[j]

\* C2: rateLimit runs to completion on Node's single thread, so in every
\* reachable state the stored count of a key is in 1..20 and the number of
\* calls admitted since its window_start is the count, never above the cap.
C2_NeverAboveCap ==
  \A k \in Nicks :
    rate_limits[k].present =>
      /\ rate_limits[k].count \in 1..CAP
      /\ rlAdmitted[k] = rate_limits[k].count
      /\ rlAdmitted[k] <= CAP

\* C2 witness: a key is at the cap and a further call found no room
C2_Witness ==
  \E k \in Nicks :
    /\ rate_limits[k].count = CAP /\ rlAdmitted[k] = CAP
    /\ rlChecks[k] > CAP /\ ~rlLast[k]

----------------------------------------------------------------------------
(* BanRegistry: checkBan, /api/check-ban and the moderation actions *)

\* server.js:1179  days * 24 * 60 * 60 * 1000
DAY == 86400000

\* the durations a moderator bans for, in days
BanDays == {1}

\* variant: the ban ends at banned_until, not after it
BanExpired_atDeadline(row, t) == row.banned_until # -1 /\ t >= row.banned_until

\* line 556: the row is not permanent and its time has passed
BanExpired(row, t) == row.banned_until # -1 /\ t > row.banned_until

\* a ban that is in force at time t
BanActive(row, t) == row.present /\ ~BanExpired(row, t)

\* lines 573-579: /api/check-ban answers with what checkBan returned
CheckBanRespond(q, result) ==
  [q EXCEPT !.ban = result, !.status = "200", !.pc = "done"]

\* variant: the ban is looked up but the handler goes on regardless
PostAfterBan_ignoresBan(q, result) ==
  [q EXCEPT !.ban = result, !.pc = "post_insert"]

\* lines 711-717 of POST /api/posts: 403 for a ban, else the INSERT is sent
PostAfterBan(q, result) ==
  IF result.present
    THEN [q EXCEPT !.ban = result, !.status = "403", !.pc = "done"]
    ELSE [q EXCEPT !.ban = result, !.pc = "post_insert"]

\* the caller of checkBan goes on with its result
AfterCheckBan(q, result) ==
  IF q.kind = "post" THEN PostAfterBan(q, result)
  ELSE CheckBanRespond(q, result)

\* POST /api/check-ban: the handler calls checkBan, which sends its SELECT
StartCheckBan(r, n) ==
  /\ FreeSlot(r)
  /\ req' = [req EXCEPT ![r] = [IdleReq EXCEPT !.kind = "check-ban",
                                  !.nick = n, !.pc = "ban_select"]]
  /\ UNCHANGED <<now, limVars, banVars, postVars, cacheVars, quotaVars>>

\* lines 550-553: the SELECT runs in the database
BanSelectExec(r) ==
  /\ req[r].pc = "ban_select"
  /\ req' = [req EXCEPT ![r].row = bans[req[r].nick], ![r].pc = "ban_fetched"]
  /\ UNCHANGED <<now, limVars, banVars, postVars, cacheVars, quotaVars>>

\* variant: an expired row is reported as null but left in the table
CheckBanDecide_noDelete(q, t) ==
  IF ~q.row.present THEN AfterCheckBan(q, NoBan)
  ELSE IF BanExpired(q.row, t)
    THEN AfterCheckBan([q EXCEPT !.expired = TRUE], NoBan)
  ELSE AfterCheckBan(q, q.row)

\* lines 554-560: checkBan goes on with the rows: no row, null; an expired
\* row, the DELETE is sent; otherwise the row is returned to the caller
CheckBanDecide(q, t) ==
  IF ~q.row.present THEN AfterCheckBan(q, NoBan)
  ELSE IF BanExpired(q.row, t)
    THEN [q EXCEPT !.expired = TRUE, !.pc = "ban_delete"]
  ELSE AfterCheckBan(q, q.row)

BanDecide(r) ==
  /\ req[r].pc = "ban_fetched"
  /\ req' = [req EXCEPT ![r] = CheckBanDecide(req[r], now)]
  /\ UNCHANGED <<now, limVars, banVars, postVars, cacheVars, quotaVars>>

\* variant: a DELETE that finds no row fails the request
BanDeleteExec_strict(r) ==
  /\ req[r].pc = "ban_delete"
  /\ bans' = [bans EXCEPT ![req[r].nick] = NoBan]
  /\ banDeletes' = [banDeletes EXCEPT ![req[r].row.ver] = @ + 1]
  /\ req' = IF bans[req[r].nick].present
              THEN [req EXCEPT ![r].pc = "ban_deleted"]
              ELSE [req EXCEPT ![r].status = "500", ![r].pc = "done"]
  /\ UNCHANGED <<now, limVars, banSeq, postVars, cacheVars, quotaVars>>

\* line 557: the DELETE runs in the database, whatever row is there by now
BanDeleteExec(r) ==
  /\ req[r].pc = "ban_delete"
  /\ bans' = [bans EXCEPT ![req[r].nick] = NoBan]
  /\ banDeletes' = [banDeletes EXCEPT ![req[r].row.ver] = @ + 1]
  /\ req' = [req EXCEPT ![r].pc = "ban_deleted"]
  /\ UNCHANGED <<now, limVars, banSeq, postVars, cacheVars, quotaVars>>

\* line 558: return null
BanDeleteReturn(r) ==
  /\ req[r].pc = "ban_deleted"
  /\ req' = [req EXCEPT ![r] = AfterCheckBan(req[r], NoBan)]
  /\ UNCHANGED <<now, limVars, banVars, postVars, cacheVars, quotaVars>>

\* the response is out; the slot is free for the next request
Finish(r) ==
  /\ req[r].pc = "done"
  /\ req' = [req EXCEPT ![r] = IdleReq]
  /\ UNCHANGED <<now, limVars, banVars, postVars, cacheVars, quotaVars>>

\* lines 1176-1180: banned_until of a ban action
BannedUntil(infinite, days, t) == IF infinite THEN -1 ELSE t + days * DAY

\* POST /api/admin/ban: the upsert of the ban row
AdminBan(n, infinite, days) ==
  /\ banSeq < MaxBans
  /\ banSeq' = banSeq + 1
  /\ bans' = [bans EXCEPT ![n] =
       [present |-> TRUE, banned_until |-> BannedUntil(infinite, days, now),
        ver |-> banSeq + 1]]
  /\ UNCHANGED <<now, limVars, banDeletes, postVars, cacheVars, quotaVars, req>>

\* POST /api/admin/unban
AdminUnban(n) ==
  /\ bans[n].present
  /\ bans' = [bans EXCEPT ![n] = NoBan]
  /\ UNCHANGED <<now, limVars, banSeq, banDeletes, postVars, cacheVars,
                 quotaVars, req>>

TickBan ==
  /\ \E t \in Instants(DAY) : ClockMove(t) /\ now' = t
  /\ UNCHANGED <<limVars, banVars, postVars, cacheVars, quotaVars, req>>

InitBan ==
  /\ now = 0
  /\ LimiterAtStart
  /\ BansAtStart
  /\ PostsAtStart
  /\ CachesAtStart
  /\ QuotaAtStart
  /\ ReqsAtStart

NextBan ==
  \/ \E r \in Reqs : Finish(r)
  \/ /\ Settled
     /\ \/ \E r \in Reqs, n \in Nicks : StartCheckBan(r, n)
        \/ \E r \in Reqs : BanSelectExec(r)
        \/ \E r \in Reqs : BanDecide(r)
        \/ \E r \in Reqs : BanDeleteExec(r)
        \/ \E r \in Reqs : BanDeleteReturn(r)
        \/ \E n \in Nicks, inf \in BOOLEAN, d \in BanDays : AdminBan(n, inf, d)
        \/ \E n \in Nicks : AdminUnban(n)
        \/ TickBan

SpecBan == InitBan /\ [][NextBan]_vars

\* checkBan of request r has returned
BanReturned(r) == req[r].kind = "check-ban" /\ req[r].pc = "done"

\* C3: a checkBan that found the stored ban expired (banned_until # -1 and
\* earlier than Date.now()) never returns it as active; when it has returned,
\* it returned null and the row it read is no longer in the table.
C3_ExpiredBanRemoved ==
  \A r \in Reqs :
    req[r].expired =>
      /\ ~req[r].ban.present
      /\ BanReturned(r) =>
            \/ ~bans[req[r].nick].present
            \/ bans[req[r].nick].ver # req[r].row.ver

\* C3 witness: a checkBan has returned null for an expired ban, and the
\* nickname has no ban row any more
C3_Witness ==
  \E r \in Reqs :
    /\ BanReturned(r) /\ req[r].expired /\ req[r].row.present
    /\ req[r].row.banned_until < now
    /\ ~req[r].ban.present /\ ~bans[req[r].nick].present

C4_ReturnedActive ==
  \A r \in Reqs :
    (BanReturned(r) /\ req[r].row.present /\ req[r].row.banned_until = -1)
      => req[r].ban = req[r].row

C4_OnlyModerationRemoves ==
  \A n \in Nicks :
    (bans[n].present /\ bans[n].banned_until = -1 /\ bans'[n] # bans[n])
      => req' = req

\* C4: a ban stored with banned_until = -1 is returned as active by every
\* checkBan that reads it, at any clock value, and the row changes only in
\* a step of a moderation action (no request of checkBan moves in it).
C4_PermanentUntilModerated ==
  []C4_ReturnedActive /\ [][C4_OnlyModerationRemoves]_vars

\* C5: the DELETE of checkBan never removes a row that is permanent or whose
\* banned_until has not passed at the moment the DELETE runs.
C5_DeleteOnlyExpired ==
  [][\A r \in Reqs :
       (req[r].pc = "ban_delete" /\ req'[r].pc = "ban_deleted")
         => ~BanActive(bans[req[r].nick], now)]_vars

----------------------------------------------------------------------------
(* Post creation and the RSS caches *)

\* server.js:51  5 * 60 * 1000
RSS_CACHE_TTL == 300000
\* server.js:385  rssFeedCache.users.size > 100
RSS_USERS_MAX == 100

\* lines 313, 352: the slot holds data younger than the TTL
CacheFresh(entry, t) == entry.data.some /\ t - entry.timestamp < RSS_CACHE_TTL

\* Map.get: the entry under key k, or an empty one
UsersGet(cache, k) ==
  IF \E i \in 1..Len(cache) : cache[i].key = k
    THEN LET i == CHOOSE i \in 1..Len(cache) : cache[i].key = k
         IN [data |-> cache[i].data, timestamp |-> cache[i].timestamp]
    ELSE [data |-> NoFeed, timestamp |-> 0]

\* history: the rank a key gets when it enters the Map, larger than the
\* rank of every key that is in it
NextIns(cache) ==
  IF cache = <<>> THEN 1
  ELSE 1 + (CHOOSE m \in {cache[i].ins : i \in 1..Len(cache)} :
              \A i \in 1..Len(cache) : cache[i].ins <= m)

\* variant: setting a key that is there moves it behind all others
UsersSet_moveToEnd(cache, k, entry) ==
  Append(SelectSeq(cache, LAMBDA e : e.key # k),
         [key |-> k, data |-> entry.data, timestamp |-> entry.timestamp,
          ins |-> IF \E i \in 1..Len(cache) : cache[i].key = k
                    THEN (CHOOSE e \in {cache[i] : i \in 1..Len(cache)} :
                            e.key = k).ins
                    ELSE NextIns(cache)])

\* Map.set: an existing key keeps its place (and its rank), a new key goes
\* last
UsersSet(cache, k, entry) ==
  IF \E i \in 1..Len(cache) : cache[i].key = k
    THEN [i \in 1..Len(cache) |->
            IF cache[i].key = k
              THEN [cache[i] EXCEPT !.data = entry.data,
                                    !.timestamp = entry.timestamp]
              ELSE cache[i]]
    ELSE Append(cache, [key |-> k, data |-> entry.data,
                        timestamp |-> entry.timestamp, ins |-> NextIns(cache)])

\* Map.delete
UsersDelete(cache, k) == SelectSeq(cache, LAMBDA e : e.key # k)

\* variant: the Map is never trimmed
UsersEvict_never(cache) == cache

\* variant: beyond the capacity the last key but one of the Map goes
UsersEvict_newest(cache) ==
  IF Len(cache) > RSS_USERS_MAX
    THEN SubSeq(cache, 1, Len(cache) - 2) \o <<cache[Len(cache)]>>
    ELSE cache

\* lines 385-388: beyond the capacity the first key of the Map goes
UsersEvict(cache) ==
  IF Len(cache) > RSS_USERS_MAX THEN Tail(cache) ELSE cache

\* lines 705-711 of POST /api/posts, behind the postLimiter middleware:
\* limited is the middleware's verdict, contentOk the length test of line
\* 706, profane what containsProfanity says of the sanitized text
StartPost(r, n, limited, contentOk, profane) ==
  /\ FreeSlot(r)
  /\ req' = [req EXCEPT ![r] =
       IF limited THEN [IdleReq EXCEPT !.kind = "post", !.nick = n,
                          !.status = "429", !.pc = "done"]
       ELSE IF ~contentOk \/ profane
         THEN [IdleReq EXCEPT !.kind = "post", !.nick = n,
                 !.profane = contentOk /\ profane,
                 !.status = "400", !.pc = "done"]
       ELSE [IdleReq EXCEPT !.kind = "post", !.nick = n, !.pc = "ban_select"]]
  /\ UNCHANGED <<now, limVars, banVars, postVars, cacheVars, quotaVars>>

\* lines 714-717: the INSERT runs in the database
PostInsertExec(r) ==
  /\ req[r].pc = "post_insert"
  /\ postSeq < MaxPosts
  /\ postSeq' = postSeq + 1
  /\ posts' = posts \cup {[id |-> postSeq + 1, nickname |-> req[r].nick]}
  /\ req' = [req EXCEPT ![r].postId = postSeq + 1, ![r].pc = "post_inserted"]
  /\ UNCHANGED <<now, limVars, banVars, users, cacheVars, quotaVars>>

\* lines 719-748: both caches are invalidated, then the response
PostInsertReturn(r) ==
  /\ req[r].pc = "post_inserted"
  /\ rssGlobal' = [rssGlobal EXCEPT !.timestamp = 0]
  /\ rssUsers' = UsersDelete(rssUsers, Lower(req[r].nick))
  /\ published' = published \cup {req[r].postId}
  /\ rssInvalid' = TRUE
  /\ req' = [req EXCEPT ![r].status = "200", ![r].pc = "done"]
  /\ UNCHANGED <<now, limVars, banVars, postVars, postCache, listWritten,
                 quotaVars>>

\* GET /rss.xml, lines 311-319: a fresh slot is served, else the SELECT is sent
StartRss(r) ==
  /\ FreeSlot(r)
  /\ req' = [req EXCEPT ![r] =
       IF CacheFresh(rssGlobal, now)
         THEN [IdleReq EXCEPT !.kind = "rss", !.t = now,
                 !.feed = rssGlobal.data, !.status = "200", !.pc = "done"]
         ELSE [IdleReq EXCEPT !.kind = "rss", !.t = now, !.pc = "rss_select"]]
  /\ UNCHANGED <<now, limVars, banVars, postVars, cacheVars, quotaVars>>

\* lines 319-324: the SELECT runs in the database (the model holds fewer
\* posts than its LIMIT 50)
RssSelectExec(r) ==
  /\ req[r].pc = "rss_select"
  /\ req' = [req EXCEPT ![r].feed = [some |-> TRUE, ids |-> {p.id : p \in posts}],
                        ![r].pc = "rss_fetched"]
  /\ UNCHANGED <<now, limVars, banVars, postVars, cacheVars, quotaVars>>

\* lines 326-338: the slot is replaced, stamped with the now of line 311
RssStore(r) ==
  /\ req[r].pc = "rss_fetched"
  /\ rssGlobal' = [data |-> req[r].feed, timestamp |-> req[r].t]
  /\ rssInvalid' = FALSE
  /\ req' = [req EXCEPT ![r].status = "200", ![r].pc = "done"]
  /\ UNCHANGED <<now, limVars, banVars, postVars, rssUsers, postCache,
                 published, listWritten, quotaVars>>

\* GET /rss/:nickname.xml, lines 348-361
StartRssUser(r, n) ==
  /\ FreeSlot(r)
  /\ LET cachedFeed == UsersGet(rssUsers, Lower(n))
     IN req' = [req EXCEPT ![r] =
          IF CacheFresh(cachedFeed, now)
            THEN [IdleReq EXCEPT !.kind = "rss-user", !.nick = Lower(n),
                    !.t = now, !.feed = cachedFeed.data, !.status = "200",
                    !.pc = "done"]
            ELSE [IdleReq EXCEPT !.kind = "rss-user", !.nick = Lower(n),
                    !.t = now, !.pc = "rssu_check"]]
  /\ UNCHANGED <<now, limVars, banVars, postVars, cacheVars, quotaVars>>

\* lines 358-373: the user lookup runs; 404 without the user, else the
\* SELECT of the posts is sent
RssUserCheckExec(r) ==
  /\ req[r].pc = "rssu_check"
  /\ req' = [req EXCEPT ![r] =
       IF req[r].nick \in users THEN [@ EXCEPT !.pc = "rssu_select"]
       ELSE [@ EXCEPT !.status = "404", !.pc = "done"]]
  /\ UNCHANGED <<now, limVars, banVars, postVars, cacheVars, quotaVars>>

\* lines 367-373: the SELECT runs in the database
RssUserSelectExec(r) ==
  /\ req[r].pc = "rssu_select"
  /\ req' = [req EXCEPT
       ![r].feed = [some |-> TRUE,
                    ids |-> {p.id : p \in {x \in posts : x.nickname = req[r].nick}}],
       ![r].pc = "rssu_fetched"]
  /\ UNCHANGED <<now, limVars, banVars, postVars, cacheVars, quotaVars>>

\* lines 375-392: the entry is set, the Map trimmed, the feed sent
RssUserStore(r) ==
  /\ req[r].pc = "rssu_fetched"
  /\ rssUsers' = UsersEvict(UsersSet(rssUsers, req[r].nick,
                              [data |-> req[r].feed, timestamp |-> req[r].t]))
  /\ req' = [req EXCEPT ![r].status = "200", ![r].pc = "done"]
  /\ UNCHANGED <<now, limVars, banVars, postVars, rssGlobal, postCache,
                 histVars, quotaVars>>

TickFeed ==
  /\ \E t \in Instants(RSS_CACHE_TTL) : ClockMove(t) /\ now' = t
  /\ UNCHANGED <<limVars, banVars, postVars, cacheVars, quotaVars, req>>

\* a first post of ann has been stored at time 0 and, at time 1, /rss.xml,
\* /rss/ann.xml and /rss/bob.xml have each been read once
FeedsRead ==
  /\ users = {"ann", "bob"}
  /\ posts = {[id |-> 1, nickname |-> "ann"]}
  /\ postSeq = 1
  /\ rssGlobal = [data |-> [some |-> TRUE, ids |-> {1}], timestamp |-> 1]
  /\ rssUsers = <<[key |-> "ann", data |-> [some |-> TRUE, ids |-> {1}],
                   timestamp |-> 1, ins |-> 1],
                  [key |-> "bob", data |-> [some |-> TRUE, ids |-> {}],
                   timestamp |-> 1, ins |-> 2]>>
  /\ PostCacheAtStart
  /\ published = {1}
  /\ rssInvalid = FALSE
  /\ listWritten = FALSE

\* posts, feed reads and the clock, from the empty tables
InitFeed ==
  /\ now = 0
  /\ LimiterAtStart
  /\ BansAtStart
  /\ PostsAtStart
  /\ CachesAtStart
  /\ QuotaAtStart
  /\ ReqsAtStart

NextFeed ==
  \/ \E r \in Reqs : Finish(r)
  \/ /\ Settled
     /\ \/ \E r \in Reqs, n \in Nicks : StartPost(r, n, FALSE, TRUE, FALSE)
        \/ \E r \in Reqs : BanSelectExec(r)
        \/ \E r \in Reqs : BanDecide(r)
        \/ \E r \in Reqs : PostInsertExec(r)
        \/ \E r \in Reqs : PostInsertReturn(r)
        \/ \E r \in Reqs : StartRss(r)
        \/ \E r \in Reqs : RssSelectExec(r)
        \/ \E r \in Reqs : RssStore(r)
        \/ \E r \in Reqs, n \in Names : StartRssUser(r, n)
        \/ \E r \in Reqs : RssUserCheckExec(r)
        \/ \E r \in Reqs : RssUserSelectExec(r)
        \/ \E r \in Reqs : RssUserStore(r)
        \/ TickFeed

SpecFeed == InitFeed /\ [][NextFeed]_vars

\* the clock of SpecPost, which starts at 1
TickPost ==
  /\ \E t \in Instants(DAY) : ClockMove(t + 1) /\ now' = t + 1
  /\ UNCHANGED <<limVars, banVars, postVars, cacheVars, quotaVars, req>>

\* post creation against the moderator, with the feeds already cached
InitPost ==
  /\ now = 1
  /\ LimiterAtStart
  /\ BansAtStart
  /\ FeedsRead
  /\ QuotaAtStart
  /\ ReqsAtStart

NextPost ==
  \/ \E r \in Reqs : Finish(r)
  \/ /\ Settled
     /\ \/ \E r \in Reqs, n \in Nicks, lim, ok, prof \in BOOLEAN :
             StartPost(r, n, lim, ok, prof)
        \/ \E r \in Reqs : BanSelectExec(r)
        \/ \E r \in Reqs : BanDecide(r)
        \/ \E r \in Reqs : BanDeleteExec(r)
        \/ \E r \in Reqs : BanDeleteReturn(r)
        \/ \E r \in Reqs : PostInsertExec(r)
        \/ \E r \in Reqs : PostInsertReturn(r)
        \/ \E n \in Nicks, inf \in BOOLEAN, d \in BanDays : AdminBan(n, inf, d)
        \/ \E n \in Nicks : AdminUnban(n)
        \/ TickPost

SpecPost == InitPost /\ [][NextPost]_vars

\* request r takes a step
Moves(r) == req'[r] # req[r]

C6_Outcome ==
  \A r \in Reqs :
    (req[r].kind = "post" /\ req[r].ban.present) =>
      req[r].pc = "done" /\ req[r].status = "403" /\ req[r].postId = 0

C6_BannedStep ==
  \A r \in Reqs :
    ( /\ req[r].kind = "post" /\ req[r].pc = "ban_fetched"
      /\ BanActive(req[r].row, now)
      /\ Moves(r) ) =>
    /\ req'[r].pc = "done" /\ req'[r].status = "403"
    /\ req'[r].ban = req[r].row /\ req'[r].postId = 0
    /\ UNCHANGED <<postVars, cacheVars>>

C6_NoInsertNoInvalidate ==
  \A r \in Reqs :
    (Moves(r) /\ req[r].postId = 0 /\ req'[r].postId = 0) =>
      UNCHANGED <<postVars, cacheVars>>

----------------------------------------------------------------------------
(* QuotaManager: validateApiKey *)

\* part_004:233  24 * 60 * 60 * 1000
dayInMs == 86400000
\* part_004:243  key.requests_today >= 1000
DAILY_CAP == 1000

\* line 235: the day of the row has run out
ResetDue(key, t) == t - key.last_reset > dayInMs

\* variant: the cap test off by one
QuotaSpent_offByOne(key) == key.requests_today > DAILY_CAP

\* line 243
QuotaSpent(key) == key.requests_today >= DAILY_CAP

\* lines 243-250: 429 at the cap, else the UPDATE of the counter is sent
KeyAfterReset(q) ==
  IF QuotaSpent(q.key) THEN [q EXCEPT !.status = "429", !.pc = "done"]
  ELSE [q EXCEPT !.pc = "key_incr"]

\* variant: a key without a row is answered as a spent quota
KeyDecideRow_absentIsSpent(q, t) ==
  IF ~q.key.present THEN [q EXCEPT !.status = "429", !.pc = "done"]
  ELSE IF ResetDue(q.key, t)
    THEN [q EXCEPT !.t = t, !.reset = TRUE, !.pc = "key_reset"]
  ELSE KeyAfterReset([q EXCEPT !.t = t])

\* variant: the reset is taken whenever the day is at or past its end
KeyDecideRow_resetAtDay(q, t) ==
  IF ~q.key.present THEN [q EXCEPT !.status = "401", !.pc = "done"]
  ELSE IF t - q.key.last_reset >= dayInMs
    THEN [q EXCEPT !.t = t, !.reset = TRUE, !.pc = "key_reset"]
  ELSE KeyAfterReset([q EXCEPT !.t = t])

\* lines 227-250, after the SELECT: 401 without a row; when the day has run
\* out the reset UPDATE is sent; else on to the cap test
KeyDecideRow(q, t) ==
  IF ~q.key.present THEN [q EXCEPT !.status = "401", !.pc = "done"]
  ELSE IF ResetDue(q.key, t)
    THEN [q EXCEPT !.t = t, !.reset = TRUE, !.pc = "key_reset"]
  ELSE KeyAfterReset([q EXCEPT !.t = t])

\* lines 215-225: 401 without the header, else the SELECT is sent
StartApi(r, hasKey, k) ==
  /\ FreeSlot(r)
  /\ qCalls < MaxCalls
  /\ qCalls' = qCalls + 1
  /\ req' = [req EXCEPT ![r] =
       IF ~hasKey THEN [IdleReq EXCEPT !.kind = "api", !.status = "401",
                          !.pc = "done"]
       ELSE [IdleReq EXCEPT !.kind = "api", !.nick = k, !.pc = "key_select"]]
  /\ UNCHANGED <<now, limVars, banVars, postVars, cacheVars, api_keys, qAdmitted,
                 qLog, ownerKeys,
                 pendingTokens, rngLinks>>

\* lines 222-225: the SELECT runs in the database
KeySelectExec(r) ==
  /\ req[r].pc = "key_select"
  /\ req' = [req EXCEPT ![r].key = api_keys[req[r].nick],
                        ![r].seen = api_keys[req[r].nick].requests_today,
                        ![r].pc = "key_fetched"]
  /\ UNCHANGED <<now, limVars, banVars, postVars, cacheVars, quotaVars>>

\* lines 227-250: the handler goes on with the row, reading Date.now()
KeyDecide(r) ==
  /\ req[r].pc = "key_fetched"
  /\ req' = [req EXCEPT ![r] = KeyDecideRow(req[r], now)]
  /\ UNCHANGED <<now, limVars, banVars, postVars, cacheVars, quotaVars>>

\* lines 236-239: the reset UPDATE runs in the database
KeyResetExec(r) ==
  /\ req[r].pc = "key_reset"
  /\ LET k == req[r].nick
     IN /\ api_keys' = [api_keys EXCEPT ![k] =
              IF @.present
                THEN [@ EXCEPT !.requests_today = 0, !.last_reset = req[r].t]
                ELSE @]
        /\ qAdmitted' = [qAdmitted EXCEPT ![k] = 0]
  /\ req' = [req EXCEPT ![r].pc = "key_reset_done"]
  /\ UNCHANGED <<now, limVars, banVars, postVars, cacheVars, qCalls, qLog,
                 ownerKeys,
                 pendingTokens, rngLinks>>

\* lines 240-250: the local copy is zeroed, then the cap test
KeyResetReturn(r) ==
  /\ req[r].pc = "key_reset_done"
  /\ req' = [req EXCEPT ![r] =
               KeyAfterReset([req[r] EXCEPT !.key.requests_today = 0])]
  /\ UNCHANGED <<now, limVars, banVars, postVars, cacheVars, quotaVars>>

\* variant: the handler writes back the counter it read, plus one
KeyIncrExec_writesSeen(r) ==
  /\ req[r].pc = "key_incr"
  /\ api_keys' = [api_keys EXCEPT ![req[r].nick] =
       IF @.present
         THEN [@ EXCEPT !.last_used = req[r].t,
                        !.requests_today = req[r].key.requests_today + 1]
         ELSE @]
  /\ req' = [req EXCEPT ![r].pc = "key_incr_done"]
  /\ UNCHANGED <<now, limVars, banVars, postVars, cacheVars, qAdmitted, qCalls,
                 qLog, ownerKeys,
                 pendingTokens, rngLinks>>

\* lines 247-250: the UPDATE of the counter runs in the database
KeyIncrExec(r) ==
  /\ req[r].pc = "key_incr"
  /\ api_keys' = [api_keys EXCEPT ![req[r].nick] =
       IF @.present
         THEN [@ EXCEPT !.last_used = req[r].t,
                        !.requests_today = @ + 1]
         ELSE @]
  /\ req' = [req EXCEPT ![r].pc = "key_incr_done"]
  /\ UNCHANGED <<now, limVars, banVars, postVars, cacheVars, qAdmitted, qCalls,
                 qLog, ownerKeys,
                 pendingTokens, rngLinks>>

\* lines 252-253: next() hands the request to the protected handler
KeyIncrReturn(r) ==
  /\ req[r].pc = "key_incr_done"
  /\ qAdmitted' = [qAdmitted EXCEPT ![req[r].nick] = @ + 1]
  /\ qLog' = [qLog EXCEPT ![req[r].nick] =
                IF req[r].t \in DOMAIN @ THEN [@ EXCEPT ![req[r].t] = @ + 1]
                ELSE @]
  /\ req' = [req EXCEPT ![r].status = "next", ![r].pc = "done"]
  /\ UNCHANGED <<now, limVars, banVars, postVars, cacheVars, api_keys, qCalls,
                 ownerKeys,
                 pendingTokens, rngLinks>>

TickQuota ==
  /\ \E t \in Instants(dayInMs) : ClockMove(t) /\ now' = t
  /\ UNCHANGED <<limVars, banVars, postVars, cacheVars, quotaVars, req>>

\* the counter values the model starts the issued key at: fresh, and after
\* 998, 999 and 1000 requests of the running day
QuotaStart == {0, DAILY_CAP - 2, DAILY_CAP - 1, DAILY_CAP}

\* part_004:729-732 issued "txt_1" at time 0; n requests were served since
InitQuota ==
  /\ now = 0
  /\ LimiterAtStart
  /\ BansAtStart
  /\ PostsAtStart
  /\ CachesAtStart
  /\ ReqsAtStart
  /\ \E n \in QuotaStart :
       /\ api_keys = [k \in ApiKeys |->
            IF k = "txt_1"
              THEN [present |-> TRUE, requests_today |-> n, last_reset |-> 0,
                    last_used |-> 0]
              ELSE NoKey]
       /\ qAdmitted = [k \in ApiKeys |-> IF k = "txt_1" THEN n ELSE 0]
       /\ qLog = [k \in ApiKeys |->
            [t \in Instants(dayInMs) |-> IF k = "txt_1" /\ t = 0 THEN n ELSE 0]]
  /\ qCalls = 0
  /\ ownerKeys = [o \in Nicks |-> 0]
  /\ pendingTokens = {}
  /\ rngLinks = [tk \in Tokens |-> 0]

QuotaSteps ==
  \/ \E r \in Reqs : KeySelectExec(r)
  \/ \E r \in Reqs : KeyDecide(r)
  \/ \E r \in Reqs : KeyResetExec(r)
  \/ \E r \in Reqs : KeyResetReturn(r)
  \/ \E r \in Reqs : KeyIncrExec(r)
  \/ \E r \in Reqs : KeyIncrReturn(r)
  \/ TickQuota

\* API requests arriving at any time
NextQuota ==
  \/ \E r \in Reqs : Finish(r)
  \/ /\ Settled
     /\ \/ \E r \in Reqs, h \in BOOLEAN, k \in ApiKeys : StartApi(r, h, k)
        \/ QuotaSteps

SpecQuota == InitQuota /\ [][NextQuota]_vars

\* API requests one after the other
NextQuotaSeq ==
  \/ \E r \in Reqs : Finish(r)
  \/ /\ Settled
     /\ \/ /\ ~InFlight
           /\ \E r \in Reqs, h \in BOOLEAN, k \in ApiKeys : StartApi(r, h, k)
        \/ QuotaSteps

SpecQuotaSeq == InitQuota /\ [][NextQuotaSeq]_vars

----------------------------------------------------------------------------
(* The persistence collaborator fails *)

\* the positions at which a request waits for pool.query
AwaitingQuery ==
  {"ban_select", "ban_delete", "post_insert",
   "key_select", "key_reset", "key_incr"}

\* variant: the error is swallowed and the request goes on as if allowed
OnQueryError_failOpen(q) ==
  IF q.kind = "api"
    THEN [q EXCEPT !.failedAt = q.pc, !.status = "next", !.pc = "done"]
    ELSE [q EXCEPT !.failedAt = q.pc, !.pc = "post_insert"]

\* a rejected pool.query: validateApiKey catches it and answers 500
\* (part_004:254-257); POST /api/posts and /api/check-ban have no try, the
\* rejection leaves the handler and nothing after the await runs
OnQueryError(q) ==
  IF q.kind = "api"
    THEN [q EXCEPT !.failedAt = q.pc, !.status = "500", !.pc = "done"]
    ELSE [q EXCEPT !.failedAt = q.pc, !.status = "threw", !.pc = "done"]

\* the query request r waits for is rejected; the statement did not run
DbFail(r) ==
  /\ req[r].pc \in AwaitingQuery
  /\ req' = [req EXCEPT ![r] = OnQueryError(req[r])]
  /\ UNCHANGED <<now, limVars, banVars, postVars, cacheVars, quotaVars>>

\* at time 0 the moderator has banned ann for a day, and "txt_1" has been
\* issued and has served 999 requests
InitFail ==
  /\ now = 0
  /\ LimiterAtStart
  /\ bans = [n \in Names |->
       IF n = "ann"
         THEN [present |-> TRUE, banned_until |-> BannedUntil(FALSE, 1, 0),
               ver |-> 1]
         ELSE NoBan]
  /\ banSeq = 1
  /\ banDeletes = [v \in 1..MaxBans |-> 0]
  /\ PostsAtStart
  /\ CachesAtStart
  /\ ReqsAtStart
  /\ api_keys = [k \in ApiKeys |->
       IF k = "txt_1"
         THEN [present |-> TRUE, requests_today |-> DAILY_CAP - 1,
               last_reset |-> 0, last_used |-> 0]
         ELSE NoKey]
  /\ qAdmitted = [k \in ApiKeys |-> IF k = "txt_1" THEN DAILY_CAP - 1 ELSE 0]
  /\ qCalls = 0
  /\ qLog = [k \in ApiKeys |-> [t \in {} |-> 0]]
  /\ ownerKeys = [o \in Nicks |-> 0]
  /\ pendingTokens = {}
  /\ rngLinks = [tk \in Tokens |-> 0]

\* posts of ann and API requests, the clock, and a database that may reject
\* any query
NextFail ==
  \/ \E r \in Reqs : Finish(r)
  \/ /\ Settled
     /\ \/ \E r \in Reqs : StartPost(r, "ann", FALSE, TRUE, FALSE)
        \/ \E r \in Reqs : BanSelectExec(r)
        \/ \E r \in Reqs : BanDecide(r)
        \/ \E r \in Reqs : BanDeleteExec(r)
        \/ \E r \in Reqs : BanDeleteReturn(r)
        \/ \E r \in Reqs : PostInsertExec(r)
        \/ \E r \in Reqs : PostInsertReturn(r)
        \/ \E r \in Reqs : StartApi(r, TRUE, "txt_1")
        \/ QuotaSteps
        \/ \E r \in Reqs : DbFail(r)

SpecFail == InitFail /\ [][NextFail]_vars

\* C7: a request whose ban lookup (the SELECT or the DELETE of checkBan) was
\* rejected by the database gets no response of success and inserts no post;
\* an API request whose key lookup, reset or increment was rejected is
\* answered 500 and is not passed on to the protected handler.
C7_FailClosed ==
  \A r \in Reqs :
    /\ req[r].failedAt \in {"ban_select", "ban_delete"} =>
         /\ req[r].pc = "done" /\ req[r].status = "threw"
         /\ req[r].postId = 0
    /\ req[r].failedAt \in {"key_select", "key_reset", "key_incr"} =>
         req[r].pc = "done" /\ req[r].status = "500"

\* C7 witness: checkBan found an expired ban and its DELETE was rejected
C7_Witness ==
  \E r \in Reqs :
    /\ req[r].kind = "post" /\ req[r].failedAt = "ban_delete"
    /\ req[r].expired /\ req[r].status = "threw" /\ req[r].postId = 0

\* C8: under concurrent validateApiKey calls for one key, requests_today and
\* the number of requests passed on since the last reset stay at or below
\* the daily cap of 1000.
C8_NeverAboveDailyCap ==
  \A k \in ApiKeys :
    api_keys[k].requests_today <= DAILY_CAP /\ qAdmitted[k] <= DAILY_CAP

\* validateApiKey of request r has answered, for a key that exists
ApiAnswered(r) ==
  req[r].kind = "api" /\ req[r].pc = "done" /\ req[r].key.present

\* C9: with requests handled one after the other and no reset due, the
\* request that reads requests_today = 999 is passed on and leaves the
\* counter at 1000; a request that reads 1000 is answered 429 and leaves it.
C9_LastOneThenDenied ==
  \A r \in Reqs :
    (ApiAnswered(r) /\ ~req[r].reset) =>
      /\ req[r].seen = DAILY_CAP - 1 =>
           /\ req[r].status = "next"
           /\ api_keys[req[r].nick].requests_today = DAILY_CAP
      /\ req[r].seen >= DAILY_CAP =>
           /\ req[r].status = "429"
           /\ api_keys[req[r].nick].requests_today = req[r].seen

\* C9 witness: after the request that took the counter from 999 to 1000 in
\* the running day, the next one was answered 429
C9_Witness ==
  \E r \in Reqs :
    /\ ApiAnswered(r) /\ req[r].status = "429" /\ req[r].seen = DAILY_CAP
    /\ api_keys[req[r].nick].last_used > 0
    /\ api_keys[req[r].nick].last_reset = 0

\* C10: with requests handled one after the other, a request takes the
\* reset exactly when its Date.now() is more than 24 h past the last_reset
\* it read; it then is passed on and leaves requests_today = 1 and
\* last_reset = that Date.now(), whatever the counter was; without the reset
\* last_reset is left as read.
C10_ResetAfterDay ==
  \A r \in Reqs :
    ApiAnswered(r) =>
      /\ req[r].reset <=> (req[r].t - req[r].key.last_reset > dayInMs)
      /\ req[r].reset =>
           /\ req[r].status = "next"
           /\ api_keys[req[r].nick].requests_today = 1
           /\ api_keys[req[r].nick].last_reset = req[r].t
      /\ ~req[r].reset =>
           api_keys[req[r].nick].last_reset = req[r].key.last_reset

\* C10 witness: a request that read the counter at the cap, more than a day
\* after the last reset, was passed on and left the counter at 1
C10_Witness ==
  \E r \in Reqs :
    /\ ApiAnswered(r) /\ req[r].reset /\ req[r].seen = DAILY_CAP
    /\ req[r].status = "next"
    /\ api_keys[req[r].nick].requests_today = 1

----------------------------------------------------------------------------
(* Claims on credentials without a quota record *)

\* an API request that sent no x-api-key header, or whose SELECT found no row
NoCredential(q) ==
  /\ q.kind = "api"
  /\ q.pc # "key_select"
  /\ ~q.key.present

C11_Rejected ==
  \A r \in Reqs :
    (NoCredential(req[r]) /\ req[r].pc = "done") =>
      /\ req[r].status = "401"
      /\ req[r].status # "429"

C11_NoRowTouched ==
  \A r \in Reqs :
    (Moves(r) /\ NoCredential(req'[r])) =>
      /\ api_keys' = api_keys
      /\ qAdmitted' = qAdmitted

\* C11: a request without a key, or with a key that has no row in api_keys,
\* is answered 401 (never 429 and never passed on), and none of its steps
\* creates or changes a row of api_keys
C11_InvalidCredential == []C11_Rejected /\ [][C11_NoRowTouched]_vars

\* a request with a key that was never issued has been answered 401 while
\* the issued key keeps its row
C11_Witness ==
  /\ \E r \in Reqs :
       req[r].kind = "api" /\ req[r].nick = "txt_x" /\ req[r].pc = "done"
       /\ req[r].status = "401"
  /\ api_keys["txt_1"].present

----------------------------------------------------------------------------
(* The post list of GET /api/posts and its cache *)

\* part_001:85  now - postCache.timestamp > 5000
POST_CACHE_TTL == 5000

\* Date.now() when the server starts: milliseconds since 1970, far more
\* than any TTL of the program
BootTime == 2 * RSS_CACHE_TTL

\* the instants the caches are read at: just before, at and just after the
\* ends of the TTL periods counted from the start of the server
CacheInstants(ttl) ==
  {BootTime + i * ttl + j : i \in 0..MaxPeriods, j \in (0 - MaxOffset)..MaxOffset}

\* variant: the list is refreshed one millisecond later
ListStale_late(cache, t) == t - cache.timestamp > POST_CACHE_TTL + 1

\* part_001:85: the cached list is too old to be served
ListStale(cache, t) == t - cache.timestamp > POST_CACHE_TTL

\* part_001:97-110: the page is cut from postCache.data; with posts on it
\* their comments are selected, else the response goes out at once
ListServe(q, data) ==
  IF data # {}
    THEN [q EXCEPT !.feed = [some |-> TRUE, ids |-> data], !.pc = "pl_comments"]
    ELSE [q EXCEPT !.feed = [some |-> TRUE, ids |-> {}], !.status = "200",
                   !.pc = "done"]

\* part_001:81-86: now is read and the cache tested; seen keeps the
\* timestamp the test read
StartPostList(r) ==
  /\ FreeSlot(r)
  /\ LET q == [IdleReq EXCEPT !.kind = "list", !.t = now,
                              !.seen = postCache.timestamp]
     IN req' = [req EXCEPT ![r] =
          IF ListStale(postCache, now) THEN [q EXCEPT !.pc = "pl_select"]
          ELSE ListServe(q, postCache.data)]
  /\ UNCHANGED <<now, limVars, banVars, postVars, cacheVars, quotaVars>>

\* part_001:86-92: the SELECT of all posts runs in the database
ListSelectExec(r) ==
  /\ req[r].pc = "pl_select"
  /\ req' = [req EXCEPT ![r].feed = [some |-> TRUE, ids |-> {p.id : p \in posts}],
                        ![r].queried = TRUE,
                        ![r].pc = "pl_fetched"]
  /\ UNCHANGED <<now, limVars, banVars, postVars, cacheVars, quotaVars>>

\* variant: the refresh does not put an older timestamp over a newer one
ListStore_keepsNewerStamp(r) ==
  /\ req[r].pc = "pl_fetched"
  /\ postCache' = [data |-> req[r].feed.ids,
                   timestamp |-> IF postCache.timestamp > req[r].t
                                   THEN postCache.timestamp ELSE req[r].t]
  /\ listWritten' = TRUE
  /\ req' = [req EXCEPT ![r] = ListServe(req[r], req[r].feed.ids)]
  /\ UNCHANGED <<now, limVars, banVars, postVars, rssGlobal, rssUsers,
                 published, rssInvalid, quotaVars>>

\* part_001:93-97: the rows and the now of line 83 go into postCache, and
\* the page is cut from it
ListStore(r) ==
  /\ req[r].pc = "pl_fetched"
  /\ postCache' = [data |-> req[r].feed.ids, timestamp |-> req[r].t]
  /\ listWritten' = TRUE
  /\ req' = [req EXCEPT ![r] = ListServe(req[r], req[r].feed.ids)]
  /\ UNCHANGED <<now, limVars, banVars, postVars, rssGlobal, rssUsers,
                 published, rssInvalid, quotaVars>>

\* part_001:101-110: the SELECT of the comments runs, the response goes out
ListCommentsExec(r) ==
  /\ req[r].pc = "pl_comments"
  /\ req' = [req EXCEPT ![r].status = "200", ![r].pc = "done"]
  /\ UNCHANGED <<now, limVars, banVars, postVars, cacheVars, quotaVars>>

TickList ==
  /\ \E t \in CacheInstants(POST_CACHE_TTL) : ClockMove(t) /\ now' = t
  /\ UNCHANGED <<limVars, banVars, postVars, cacheVars, quotaVars, req>>

\* the server has just started: the tables hold the users, the caches are
\* as constructed
InitList ==
  /\ now \in {t \in CacheInstants(POST_CACHE_TTL) : t <= BootTime}
  /\ LimiterAtStart
  /\ BansAtStart
  /\ PostsAtStart
  /\ CachesAtStart
  /\ QuotaAtStart
  /\ ReqsAtStart

\* readers of the post list while ann posts
NextList ==
  \/ \E r \in Reqs : Finish(r)
  \/ /\ Settled
     /\ \/ \E r \in Reqs : StartPost(r, "ann", FALSE, TRUE, FALSE)
        \/ \E r \in Reqs : BanSelectExec(r)
        \/ \E r \in Reqs : BanDecide(r)
        \/ \E r \in Reqs : PostInsertExec(r)
        \/ \E r \in Reqs : PostInsertReturn(r)
        \/ \E r \in Reqs : StartPostList(r)
        \/ \E r \in Reqs : ListSelectExec(r)
        \/ \E r \in Reqs : ListStore(r)
        \/ \E r \in Reqs : ListCommentsExec(r)
        \/ TickList

SpecList == InitList /\ [][NextList]_vars

\* request slot r takes up a request of the given kind
Arrives(r, kind) == req[r].kind = "idle" /\ req'[r].kind = kind

C12_Read ==
  \A r \in Reqs :
    Arrives(r, "list") =>
      /\ now - postCache.timestamp <= POST_CACHE_TTL - 1 =>
           /\ req'[r].pc # "pl_select"
           /\ req'[r].feed.ids = postCache.data
           /\ postCache' = postCache
      /\ now - postCache.timestamp >= POST_CACHE_TTL + 1 =>
           req'[r].pc = "pl_select"

C12_Rewrite ==
  \A r \in Reqs :
    (req[r].pc = "pl_fetched" /\ Moves(r)) =>
      /\ req[r].queried
      /\ postCache' = [data |-> req[r].feed.ids, timestamp |-> req[r].t]

C12_Served ==
  \A r \in Reqs :
    (req[r].kind = "list" /\ req[r].pc = "done") =>
      /\ req[r].t - req[r].seen <= POST_CACHE_TTL - 1 => ~req[r].queried
      /\ req[r].t - req[r].seen >= POST_CACHE_TTL + 1 => req[r].queried

\* C12: a GET /api/posts that arrives up to 4999 ms after postCache was
\* written is served postCache.data as it stands, without the SELECT of the
\* posts and without a write to postCache; one that arrives 5001 ms after
\* it or later runs the SELECT and rewrites postCache with the rows and its
\* own now
C12_PostListTtl == []C12_Served /\ [][C12_Read /\ C12_Rewrite]_vars

\* a list written after the start of the server, holding a post, was served
\* 4999 ms later without a SELECT
C12_Witness ==
  \E r \in Reqs :
    /\ req[r].kind = "list" /\ req[r].pc = "done"
    /\ req[r].seen >= BootTime - MaxOffset
    /\ req[r].t - req[r].seen = POST_CACHE_TTL - 1
    /\ ~req[r].queried
    /\ req[r].feed.ids # {}

C13_List ==
  \A r \in Reqs :
    (Arrives(r, "list") /\ now - postCache.timestamp >= POST_CACHE_TTL) =>
      req'[r].pc = "pl_select"

C13_Rss ==
  \A r \in Reqs :
    (Arrives(r, "rss") /\ now - rssGlobal.timestamp >= RSS_CACHE_TTL) =>
      req'[r].pc = "rss_select"

C13_RssUser ==
  \A r \in Reqs :
    ( /\ Arrives(r, "rss-user")
      /\ now - UsersGet(rssUsers, req'[r].nick).timestamp >= RSS_CACHE_TTL ) =>
      req'[r].pc = "rssu_check"

\* C13: a read of postCache, of the global feed slot or of a per-author feed
\* slot that arrives with now - timestamp equal to the TTL of that cache, or
\* larger, is a miss: it goes on to the SELECT instead of serving the slot
C13_MissAtTtl == [][C13_List /\ C13_Rss /\ C13_RssUser]_vars

----------------------------------------------------------------------------
(* Posting against the readers of the feeds and of the post list *)

\* the steps a request takes once it has arrived
FeedSteps ==
  \/ \E r \in Reqs : BanSelectExec(r)
  \/ \E r \in Reqs : BanDecide(r)
  \/ \E r \in Reqs : PostInsertExec(r)
  \/ \E r \in Reqs : PostInsertReturn(r)
  \/ \E r \in Reqs : RssSelectExec(r)
  \/ \E r \in Reqs : RssStore(r)
  \/ \E r \in Reqs : RssUserCheckExec(r)
  \/ \E r \in Reqs : RssUserSelectExec(r)
  \/ \E r \in Reqs : RssUserStore(r)

\* one request at a time, on a machine whose clock starts at 0: posts,
\* reads of the feeds and of the post list
NextFeedSeq ==
  \/ \E r \in Reqs : Finish(r)
  \/ /\ Settled
     /\ \/ /\ ~InFlight
           /\ \/ \E r \in Reqs, n \in Names : StartPost(r, n, FALSE, TRUE, FALSE)
              \/ \E r \in Reqs : StartRss(r)
              \/ \E r \in Reqs, n \in Names : StartRssUser(r, n)
              \/ \E r \in Reqs : StartPostList(r)
        \/ FeedSteps
        \/ \E r \in Reqs : ListSelectExec(r)
        \/ \E r \in Reqs : ListStore(r)
        \/ \E r \in Reqs : ListCommentsExec(r)
        \/ TickFeed

SpecFeedSeq == InitFeed /\ [][NextFeedSeq]_vars

\* the key k has no entry in the Map
Absent(cache, k) == \A i \in 1..Len(cache) : cache[i].key # k

C14_SlotRemoved ==
  \A r \in Reqs :
    (req[r].pc = "post_inserted" /\ Moves(r)) =>
      Absent(rssUsers', Lower(req[r].nick))

C14_GlobalRecomputed ==
  \A r \in Reqs :
    (Arrives(r, "rss") /\ req'[r].pc = "done") =>
      published \subseteq req'[r].feed.ids

\* C14: with one request at a time, when POST /api/posts of author a has
\* answered 200 the Map of per-author feeds has no entry under
\* a.toLowerCase(), and no later GET /rss.xml is served from the slot a feed
\* that lacks the post
C14_PostInvalidates == [][C14_SlotRemoved /\ C14_GlobalRecomputed]_vars

C15_Global ==
  \A r \in Reqs :
    (Arrives(r, "rss") /\ rssInvalid) => req'[r].pc = "rss_select"

C15_List ==
  \A r \in Reqs :
    (Arrives(r, "list") /\ ~listWritten) => req'[r].pc = "pl_select"

\* C15: a GET /rss.xml that arrives while the global slot is invalidated and
\* not yet rewritten runs the SELECT, whatever the clock reads; so does a
\* GET /api/posts that arrives before postCache was ever written
C15_InvalidatedRecomputes == [][C15_Global /\ C15_List]_vars

\* the clock of a server started at BootTime
TickRace ==
  /\ \E t \in CacheInstants(RSS_CACHE_TTL) : ClockMove(t) /\ now' = t
  /\ UNCHANGED <<limVars, banVars, postVars, cacheVars, quotaVars, req>>

InitRace ==
  /\ now = BootTime
  /\ LimiterAtStart
  /\ BansAtStart
  /\ PostsAtStart
  /\ CachesAtStart
  /\ QuotaAtStart
  /\ ReqsAtStart

\* ann posts while the global feed and her own feed are read, the requests
\* overlapping in any way
NextFeedRace ==
  \/ \E r \in Reqs : Finish(r)
  \/ /\ Settled
     /\ \/ \E r \in Reqs : StartPost(r, "ann", FALSE, TRUE, FALSE)
        \/ \E r \in Reqs : StartRss(r)
        \/ \E r \in Reqs : StartRssUser(r, "ann")
        \/ FeedSteps
        \/ TickRace

SpecFeedRace == InitRace /\ [][NextFeedRace]_vars

\* ids of the posts of author k whose POST /api/posts has answered
PublishedBy(k) == {p.id : p \in {x \in posts : x.id \in published /\ x.nickname = k}}

C16_Global ==
  \A r \in Reqs :
    (Arrives(r, "rss") /\ req'[r].pc = "done") =>
      published \subseteq req'[r].feed.ids

C16_Author ==
  \A r \in Reqs :
    (Arrives(r, "rss-user") /\ req'[r].pc = "done") =>
      PublishedBy(req'[r].nick) \subseteq req'[r].feed.ids

\* C16: with requests overlapping in any way, a GET /rss.xml or
\* GET /rss/:nickname.xml that is served from the cache is never served a
\* feed that lacks a post whose POST /api/posts had already answered
C16_NoStaleReinstall == [][C16_Global /\ C16_Author]_vars

----------------------------------------------------------------------------
(* The Map of per-author feeds at its capacity *)

\* authors registered beyond the capacity of the Map
MaxExtra == 1

\* the nickname of the i-th registered author
Author(i) == "u" \o ToString(i)

Authors == {Author(i) : i \in 1..(RSS_USERS_MAX + MaxExtra)}

\* the authors whose feeds are asked for: the one that entered the Map
\* first, the one that fills it, and those beyond its capacity
Probes ==
  {Author(i) : i \in {1} \cup (RSS_USERS_MAX..(RSS_USERS_MAX + MaxExtra))}

\* the Map after the feeds of the first n authors were read, in that order
FeedsOfFirst(n) ==
  [i \in 1..n |-> [key |-> Author(i), data |-> [some |-> TRUE, ids |-> {}],
                   timestamp |-> BootTime - MaxOffset, ins |-> i]]

\* DELETE /api/account/:nick, lines 1109-1114: the rows of the account in
\* reactions, comments and posts are deleted
StartAccountDelete(r, n) ==
  /\ FreeSlot(r)
  /\ req' = [req EXCEPT ![r] =
       [IdleReq EXCEPT !.kind = "account", !.nick = Lower(n), !.pc = "acct_posts"]]
  /\ UNCHANGED <<now, limVars, banVars, postVars, cacheVars, quotaVars>>

\* line 1114: DELETE FROM posts runs in the database
AccountPostsExec(r) ==
  /\ req[r].pc = "acct_posts"
  /\ posts' = {p \in posts : p.nickname # req[r].nick}
  /\ req' = [req EXCEPT ![r].pc = "acct_user"]
  /\ UNCHANGED <<now, limVars, banVars, users, postSeq, cacheVars, quotaVars>>

\* lines 1115-1119: the remaining deletes, the last one FROM users
AccountUserExec(r) ==
  /\ req[r].pc = "acct_user"
  /\ users' = users \ {req[r].nick}
  /\ req' = [req EXCEPT ![r].pc = "acct_deleted"]
  /\ UNCHANGED <<now, limVars, banVars, posts, postSeq, cacheVars, quotaVars>>

\* lines 1121-1123: the author's entry leaves the Map, 200 goes out
AccountDeleteReturn(r) ==
  /\ req[r].pc = "acct_deleted"
  /\ rssUsers' = UsersDelete(rssUsers, req[r].nick)
  /\ req' = [req EXCEPT ![r].status = "200", ![r].pc = "done"]
  /\ UNCHANGED <<now, limVars, banVars, postVars, rssGlobal, postCache,
                 histVars, quotaVars>>

\* the clock passes from one TTL period to the next
TickKeyed ==
  /\ \E i \in 0..MaxPeriods :
       /\ ClockMove(BootTime + i * RSS_CACHE_TTL)
       /\ now' = BootTime + i * RSS_CACHE_TTL
  /\ UNCHANGED <<limVars, banVars, postVars, cacheVars, quotaVars, req>>

\* the server is up and the feeds of the first 99 or 100 authors are cached
InitKeyed ==
  /\ now = BootTime
  /\ LimiterAtStart
  /\ bans = [n \in Authors |-> NoBan]
  /\ banSeq = 0
  /\ banDeletes = [v \in 1..MaxBans |-> 0]
  /\ users = Authors
  /\ posts = {}
  /\ postSeq = 0
  /\ rssGlobal = [data |-> NoFeed, timestamp |-> 0]
  /\ rssUsers \in {FeedsOfFirst(RSS_USERS_MAX - 1), FeedsOfFirst(RSS_USERS_MAX)}
  /\ PostCacheAtStart
  /\ published = {}
  /\ rssInvalid = FALSE
  /\ listWritten = FALSE
  /\ QuotaAtStart
  /\ ReqsAtStart

\* feeds are read, the first author posts, the author that filled the Map
\* deletes the account
NextKeyed ==
  \/ \E r \in Reqs : Finish(r)
  \/ /\ Settled
     /\ \/ \E r \in Reqs, n \in Probes : StartRssUser(r, n)
        \/ \E r \in Reqs : RssUserCheckExec(r)
        \/ \E r \in Reqs : RssUserSelectExec(r)
        \/ \E r \in Reqs : RssUserStore(r)
        \/ /\ ~InFlight
           /\ \E r \in Reqs : StartPost(r, Author(1), FALSE, TRUE, FALSE)
        \/ \E r \in Reqs : BanSelectExec(r)
        \/ \E r \in Reqs : BanDecide(r)
        \/ \E r \in Reqs : PostInsertExec(r)
        \/ \E r \in Reqs : PostInsertReturn(r)
        \/ /\ ~InFlight
           /\ \E r \in Reqs : StartAccountDelete(r, Author(RSS_USERS_MAX))
        \/ \E r \in Reqs : AccountPostsExec(r)
        \/ \E r \in Reqs : AccountUserExec(r)
        \/ \E r \in Reqs : AccountDeleteReturn(r)
        \/ TickKeyed

SpecKeyed == InitKeyed /\ [][NextKeyed]_vars

\* C17: between the steps of the requests the Map of per-author feeds never
\* holds more than 100 entries
C17_AtMostHundred == Len(rssUsers) <= RSS_USERS_MAX

\* the feed of an author beyond the capacity was stored in a full Map
C17_Witness ==
  /\ Len(rssUsers) = RSS_USERS_MAX
  /\ ~Absent(rssUsers, Author(RSS_USERS_MAX + 1))

\* the keys of the Map
Keys(cache) == {cache[i].key : i \in 1..Len(cache)}

\* the entries of the Map
Entries(cache) == {cache[i] : i \in 1..Len(cache)}

\* the key that entered the Map before all others that are in it
OldestKey(cache) ==
  (CHOOSE e \in Entries(cache) : \A f \in Entries(cache) : e.ins <= f.ins).key

\* request r stores the feed it computed
Stores(r) == req[r].pc = "rssu_fetched" /\ Moves(r)

\* C18: when a feed is stored under a key that is not in the Map while the
\* Map holds 100 entries, the key that entered the Map first among those in
\* it is the one and only key that leaves, whether or not its entry was
\* read or rewritten since; the Map then holds the new key and the other 99
\* entries as they were
C18_FifoEviction ==
  [][\A r \in Reqs :
       ( /\ Stores(r)
         /\ Len(rssUsers) = RSS_USERS_MAX
         /\ req[r].nick \notin Keys(rssUsers) ) =>
           /\ Keys(rssUsers') =
                (Keys(rssUsers) \ {OldestKey(rssUsers)}) \cup {req[r].nick}
           /\ Len(rssUsers') = RSS_USERS_MAX
           /\ \A e \in Entries(rssUsers) :
                e.key # OldestKey(rssUsers) => e \in Entries(rssUsers')]_vars

\* the first author's entry was rewritten after its TTL, and the next new
\* key still pushed it out of the full Map
C18_Witness ==
  /\ Len(rssUsers) = RSS_USERS_MAX
  /\ Author(1) \notin Keys(rssUsers)
  /\ Author(RSS_USERS_MAX + 1) \in Keys(rssUsers)
  /\ rssUsers[1].key = Author(2)
  /\ now > BootTime

\* C19: when a feed is stored under a key that is in the Map, no key leaves
\* and every key, the rewritten one too, keeps its place in the order in
\* which the Map gives up its keys
C19_RefreshKeepsOrder ==
  [][\A r \in Reqs :
       (Stores(r) /\ req[r].nick \in Keys(rssUsers)) =>
         /\ Len(rssUsers') = Len(rssUsers)
         /\ \A i \in 1..Len(rssUsers) :
              /\ rssUsers'[i].key = rssUsers[i].key
              /\ rssUsers'[i].ins = rssUsers[i].ins]_vars

\* the entry of the first author was rewritten and is still the first
C19_Witness ==
  /\ Len(rssUsers) >= RSS_USERS_MAX - 1
  /\ rssUsers[1].key = Author(1)
  /\ rssUsers[1].timestamp >= BootTime + RSS_CACHE_TTL

----------------------------------------------------------------------------
(* filter.js: normalize and containsProfanity.  A text is the sequence of
   its characters. *)

\* filter.js:1-9
bannedWords ==
  <<<<"n", "i", "g", "g", "e", "r">>,
    <<"s", "e", "x">>,
    <<"e", "j", "a", "c", "u", "l", "a", "t", "i", "o", "n">>,
    <<"p", "e", "n", "i", "s">>,
    <<"v", "a", "g", "i", "n", "a">>,
    <<"s", "c", "r", "o", "t", "u", "m">>,
    <<"t", "e", "s", "t", "i", "c", "l", "e", "s">>>>

LowerLetters ==
  <<"a", "b", "c", "d", "e", "f", "g", "h", "i", "j", "k", "l", "m",
    "n", "o", "p", "q", "r", "s", "t", "u", "v", "w", "x", "y", "z">>

UpperLetters ==
  <<"A", "B", "C", "D", "E", "F", "G", "H", "I", "J", "K", "L", "M",
    "N", "O", "P", "Q", "R", "S", "T", "U", "V", "W", "X", "Y", "Z">>

DigitChars == {"0", "1", "2", "3", "4", "5", "6", "7", "8", "9"}

\* the characters . of a RegExp does not match
LineTerminators == {"\n", "\r"}

\* line 13 on one character
toLowerCase(c) ==
  IF \E i \in 1..26 : UpperLetters[i] = c
    THEN LowerLetters[CHOOSE i \in 1..26 : UpperLetters[i] = c]
    ELSE c

\* line 14: the characters /[^a-z0-9]/g leaves in
IsAlnum(c) == c \in DigitChars \/ \E i \in 1..26 : LowerLetters[i] = c

\* variant: the digit 1 is read as the digit 7
Unleet_oneAsSeven(c) ==
  CASE c = "0" -> "o"
    [] c = "1" -> "7"
    [] c = "3" -> "e"
    [] c = "4" -> "a"
    [] c = "5" -> "s"
    [] c = "7" -> "t"
    [] c = "8" -> "b"
    [] OTHER -> c

\* lines 15-21 on one character
Unleet(c) ==
  CASE c = "0" -> "o"
    [] c = "1" -> "i"
    [] c = "3" -> "e"
    [] c = "4" -> "a"
    [] c = "5" -> "s"
    [] c = "7" -> "t"
    [] c = "8" -> "b"
    [] OTHER -> c

\* variant: the digits are left as they are
normalize_keepDigits(text) ==
  SelectSeq([i \in 1..Len(text) |-> toLowerCase(text[i])], IsAlnum)

\* lines 11-22
normalize(text) ==
  LET lowered == [i \in 1..Len(text) |-> toLowerCase(text[i])]
      kept == SelectSeq(lowered, IsAlnum)
  IN [i \in 1..Len(kept) |-> Unleet(kept[i])]

\* variant: the letters of the word are looked for in any order
Includes_anyOrder(s, w) ==
  \A j \in 1..Len(w) : \E i \in 1..Len(s) : s[i] = w[j]

\* line 32: String.prototype.includes
Includes(s, w) ==
  \E i \in 0..(Len(s) - Len(w)) : SubSeq(s, i + 1, i + Len(w)) = w

\* lines 36-38: w[j..] is found from position i on, reading letters in
\* either case, with anything but a line terminator in between
RECURSIVE ScatteredFrom(_, _, _, _)
ScatteredFrom(text, i, w, j) ==
  IF j > Len(w) THEN TRUE
  ELSE IF i > Len(text) THEN FALSE
  ELSE IF toLowerCase(text[i]) = w[j] /\ ScatteredFrom(text, i + 1, w, j + 1)
    THEN TRUE
  ELSE IF j > 1 /\ text[i] \in LineTerminators THEN FALSE
  ELSE ScatteredFrom(text, i + 1, w, j)

\* lines 36-38: new RegExp(w.split('').join('.*'), 'i').test(text)
ScatteredTest(text, w) == ScatteredFrom(text, 1, w, 1)

\* lines 42-44: from position i on, one or more of w[j], then of w[j+1], ...
RECURSIVE RepeatedFrom(_, _, _, _)
RepeatedFrom(s, i, w, j) ==
  IF i > Len(s) THEN FALSE
  ELSE IF s[i] # w[j] THEN FALSE
  ELSE IF j = Len(w) THEN TRUE
  ELSE RepeatedFrom(s, i + 1, w, j) \/ RepeatedFrom(s, i + 1, w, j + 1)

\* the repeated pattern that asks for each letter exactly once
RepeatedTest_once(s, w) == Includes(s, w)

\* lines 42-44: the RegExp c1+c2+...cn+ tested on the normalized text
RepeatedTest(s, w) == \E i \in 1..Len(s) : RepeatedFrom(s, i, w, 1)

\* lines 24-50
containsProfanity(text) ==
  IF text = <<>> THEN FALSE
  ELSE \E k \in 1..Len(bannedWords) :
         LET normalizedWord == normalize(bannedWords[k])
         IN \/ Includes(normalize(text), normalizedWord)
            \/ ScatteredTest(text, normalizedWord)
            \/ RepeatedTest(normalize(text), normalizedWord)

----------------------------------------------------------------------------
(* Texts that spell a banned word *)

\* capital letters in one text
MaxUpper == 1

\* characters that are neither letters nor digits in one text
MaxNoise == 1

\* String.prototype.toUpperCase on one lower-case letter
toUpperCase(c) == UpperLetters[CHOOSE i \in 1..26 : LowerLetters[i] = c]

\* the digit that lines 15-21 turn into the letter c, if there is one
Leet(c) ==
  CASE c = "o" -> "0"
    [] c = "i" -> "1"
    [] c = "e" -> "3"
    [] c = "a" -> "4"
    [] c = "s" -> "5"
    [] c = "t" -> "7"
    [] c = "b" -> "8"
    [] OTHER -> c

\* the ways to write the letter c of a root word
Spellings(c) == {c, toUpperCase(c), Leet(c)}

\* characters that are neither letters nor digits
Noise == {" ", "-", "\n"}

UpperCount(text) ==
  Cardinality({i \in 1..Len(text) : \E j \in 1..26 : UpperLetters[j] = text[i]})

NoiseCount(text) == Cardinality({i \in 1..Len(text) : text[i] \in Noise})

\* a client starts a text that will spell the k-th banned word
StartSpelling(r, k) ==
  /\ FreeSlot(r)
  /\ req' = [req EXCEPT ![r] =
       [IdleReq EXCEPT !.kind = "text", !.word = k, !.pc = "typing"]]
  /\ UNCHANGED <<now, limVars, banVars, postVars, cacheVars, quotaVars>>

\* the next letter of the word, as it is, as a capital or as its digit
SpellLetter(r, c) ==
  /\ req[r].pc = "typing"
  /\ req[r].at < Len(bannedWords[req[r].word])
  /\ c \in Spellings(bannedWords[req[r].word][req[r].at + 1])
  /\ UpperCount(Append(req[r].content, c)) <= MaxUpper
  /\ req' = [req EXCEPT ![r].content = Append(@, c), ![r].at = @ + 1]
  /\ UNCHANGED <<now, limVars, banVars, postVars, cacheVars, quotaVars>>

\* a character that is neither a letter nor a digit, anywhere in the text
SpellNoise(r, c) ==
  /\ req[r].pc = "typing"
  /\ NoiseCount(req[r].content) < MaxNoise
  /\ req' = [req EXCEPT ![r].content = Append(@, c)]
  /\ UNCHANGED <<now, limVars, banVars, postVars, cacheVars, quotaVars>>

\* server.js:709  if (containsProfanity(sanitized)) return res.sendStatus(400)
SubmitText(r) ==
  /\ req[r].pc = "typing"
  /\ req[r].at = Len(bannedWords[req[r].word])
  /\ req' = [req EXCEPT
       ![r].status = IF containsProfanity(req[r].content) THEN "400" ELSE "clean",
       ![r].pc = "done"]
  /\ UNCHANGED <<now, limVars, banVars, postVars, cacheVars, quotaVars>>

InitSpell ==
  /\ now = 0
  /\ LimiterAtStart
  /\ BansAtStart
  /\ PostsAtStart
  /\ CachesAtStart
  /\ QuotaAtStart
  /\ ReqsAtStart

\* one text at a time
NextSpell ==
  \/ \E r \in Reqs : Finish(r)
  \/ /\ Settled
     /\ \/ /\ ~InFlight
           /\ \E r \in Reqs, k \in 1..Len(bannedWords) : StartSpelling(r, k)
        \/ \E r \in Reqs, c \in UNION {Spellings(LowerLetters[i]) : i \in 1..26} :
             SpellLetter(r, c)
        \/ \E r \in Reqs, c \in Noise : SpellNoise(r, c)
        \/ \E r \in Reqs : SubmitText(r)

SpecSpell == InitSpell /\ [][NextSpell]_vars

\* C20: a text that spells a banned word letter by letter, each letter as
\* it is, as a capital or as the digit that stands for it, with characters
\* that are neither letters nor digits anywhere in between, is found
\* profane by containsProfanity
C20_LeetSpellingsCaught ==
  \A r \in Reqs :
    (req[r].kind = "text" /\ req[r].pc = "done") => req[r].status = "400"

\* a text with a digit, a capital and a character that is no letter or
\* digit was found profane, and its letters as typed do not hold the word
C20_Witness ==
  \E r \in Reqs :
    /\ req[r].kind = "text" /\ req[r].pc = "done" /\ req[r].status = "400"
    /\ \E i \in 1..Len(req[r].content) : req[r].content[i] \in DigitChars
    /\ UpperCount(req[r].content) > 0
    /\ NoiseCount(req[r].content) > 0
    /\ ~Includes(normalize_keepDigits(req[r].content),
                 bannedWords[req[r].word])

----------------------------------------------------------------------------
(* Texts that hold the letters of a banned word one after the other *)

\* characters put between the letters of the word in one text
MaxFill == 2

\* what comes between the letters: a space, punctuation, a line break and
\* a letter that is in none of the banned words
Fillers == {" ", ".", "\n", "z"}

\* a client starts a text that will hold the letters of the k-th word
StartScatter(r, k) ==
  /\ FreeSlot(r)
  /\ req' = [req EXCEPT ![r] =
       [IdleReq EXCEPT !.kind = "scatter", !.word = k, !.pc = "typing"]]
  /\ UNCHANGED <<now, limVars, banVars, postVars, cacheVars, quotaVars>>

\* the next letter of the word, in either case
ScatterLetter(r, c) ==
  /\ req[r].kind = "scatter"
  /\ req[r].pc = "typing"
  /\ req[r].at < Len(bannedWords[req[r].word])
  /\ c \in {bannedWords[req[r].word][req[r].at + 1],
             toUpperCase(bannedWords[req[r].word][req[r].at + 1])}
  /\ UpperCount(Append(req[r].content, c)) <= MaxUpper
  /\ req' = [req EXCEPT ![r].content = Append(@, c), ![r].at = @ + 1]
  /\ UNCHANGED <<now, limVars, banVars, postVars, cacheVars, quotaVars>>

\* some other character, between two letters of the word
ScatterFill(r, c) ==
  /\ req[r].kind = "scatter"
  /\ req[r].pc = "typing"
  /\ req[r].at \in 1..(Len(bannedWords[req[r].word]) - 1)
  /\ Len(req[r].content) - req[r].at < MaxFill
  /\ req' = [req EXCEPT ![r].content = Append(@, c)]
  /\ UNCHANGED <<now, limVars, banVars, postVars, cacheVars, quotaVars>>

\* one text at a time
NextScatter ==
  \/ \E r \in Reqs : Finish(r)
  \/ /\ Settled
     /\ \/ /\ ~InFlight
           /\ \E r \in Reqs, k \in 1..Len(bannedWords) : StartScatter(r, k)
        \/ \E r \in Reqs, i \in 1..26 :
             \E c \in {LowerLetters[i], UpperLetters[i]} : ScatterLetter(r, c)
        \/ \E r \in Reqs, c \in Fillers : ScatterFill(r, c)
        \/ \E r \in Reqs : SubmitText(r)

SpecScatter == InitSpell /\ [][NextScatter]_vars

\* C21: a text that holds the letters of a banned word in their order, in
\* either case, with spaces, punctuation, line breaks or other letters
\* between them, is found profane by containsProfanity
C21_ScatteredCaught ==
  \A r \in Reqs :
    (req[r].kind = "scatter" /\ req[r].pc = "done") => req[r].status = "400"

-----------------------------------------------------------------------------
\* Texts that hold a banned word with its letters drawn out

MaxRepeat == 2

\* a letter that stands in no banned word next to the drawn-out word
Pad == "z"

StartRepeat(r, k) ==
  /\ FreeSlot(r)
  /\ req' = [req EXCEPT ![r] =
       [IdleReq EXCEPT !.kind = "repeat", !.word = k, !.pc = "typing"]]
  /\ UNCHANGED <<now, limVars, banVars, postVars, cacheVars, quotaVars>>

\* the next letter of the word, as it is or as the digit that stands for it
RepeatLetter(r, c) ==
  /\ req[r].pc = "typing"
  /\ req[r].kind = "repeat"
  /\ req[r].at < Len(bannedWords[req[r].word])
  /\ c \in {bannedWords[req[r].word][req[r].at + 1],
            Leet(bannedWords[req[r].word][req[r].at + 1])}
  /\ req' = [req EXCEPT ![r].content = Append(@, c), ![r].at = @ + 1]
  /\ UNCHANGED <<now, limVars, banVars, postVars, cacheVars, quotaVars>>

\* the letter just typed once more
RepeatLast(r) ==
  /\ req[r].pc = "typing"
  /\ req[r].kind = "repeat"
  /\ req[r].at >= 1
  /\ req[r].content[Len(req[r].content)] # Pad
  /\ Cardinality({i \in 1..Len(req[r].content) : req[r].content[i] # Pad})
       - req[r].at < MaxRepeat
  /\ req' = [req EXCEPT ![r].content = Append(@, @[Len(@)])]
  /\ UNCHANGED <<now, limVars, banVars, postVars, cacheVars, quotaVars>>

\* another letter before the word or after it
RepeatPad(r) ==
  /\ req[r].pc = "typing"
  /\ req[r].kind = "repeat"
  /\ \/ req[r].content = <<>>
     \/ /\ req[r].at = Len(bannedWords[req[r].word])
        /\ req[r].content[Len(req[r].content)] # Pad
  /\ req' = [req EXCEPT ![r].content = Append(@, Pad)]
  /\ UNCHANGED <<now, limVars, banVars, postVars, cacheVars, quotaVars>>

\* one text at a time
NextRepeat ==
  \/ \E r \in Reqs : Finish(r)
  \/ /\ Settled
     /\ \/ /\ ~InFlight
           /\ \E r \in Reqs, k \in 1..Len(bannedWords) : StartRepeat(r, k)
        \/ \E r \in Reqs, i \in 1..26 :
             \E c \in {LowerLetters[i], Leet(LowerLetters[i])} : RepeatLetter(r, c)
        \/ \E r \in Reqs : RepeatLast(r)
        \/ \E r \in Reqs : RepeatPad(r)
        \/ \E r \in Reqs : SubmitText(r)

SpecRepeat == InitSpell /\ [][NextRepeat]_vars

\* C22: a text whose normalized form holds, one after the other and with
\* nothing in between, the letters of a banned word, each letter one or
\* more times, is found profane by containsProfanity
C22_RepeatedCaught ==
  \A r \in Reqs :
    (req[r].kind = "repeat" /\ req[r].pc = "done") => req[r].status = "400"

\* a text with a drawn-out letter written as digits was found profane,
\* though its normalized form does not hold the word as it is and the
\* text as typed does not hold the letters of the word in order
C22_Witness ==
  \E r \in Reqs :
    /\ req[r].kind = "repeat"
    /\ req[r].pc = "done"
    /\ req[r].status = "400"
    /\ Len(req[r].content) > Len(bannedWords[req[r].word])
    /\ ~Includes(normalize(req[r].content), normalize(bannedWords[req[r].word]))
    /\ ~ScatteredTest(req[r].content, normalize(bannedWords[req[r].word]))

-----------------------------------------------------------------------------
\* Any short argument of containsProfanity and normalize

MaxLen == 3

\* variant: only an absent argument is turned away at line 25
Falsy_onlyAbsent(type, text) == type # "string"

\* line 25: !text
Falsy(type, text) == type # "string" \/ text = <<>>

\* lines 29-47: the banned words the loop looks at before it returns
WordsTried(type, text) ==
  IF Falsy(type, text) THEN 0
  ELSE LET hit(k) ==
             \/ Includes(normalize(text), normalize(bannedWords[k]))
             \/ ScatteredTest(text, normalize(bannedWords[k]))
             \/ RepeatedTest(normalize(text), normalize(bannedWords[k]))
       IN IF \E k \in 1..Len(bannedWords) : hit(k)
            THEN CHOOSE k \in 1..Len(bannedWords) :
                   hit(k) /\ \A j \in 1..(k - 1) : ~hit(j)
            ELSE Len(bannedWords)

StartArg(r, type) ==
  /\ FreeSlot(r)
  /\ req' = [req EXCEPT ![r] =
       [IdleReq EXCEPT !.kind = "arg", !.argType = type, !.pc = "typing"]]
  /\ UNCHANGED <<now, limVars, banVars, postVars, cacheVars, quotaVars>>

TypeChar(r, c) ==
  /\ req[r].pc = "typing"
  /\ req[r].kind = "arg"
  /\ req[r].argType = "string"
  /\ Len(req[r].content) < MaxLen
  /\ req' = [req EXCEPT ![r].content = Append(@, c)]
  /\ UNCHANGED <<now, limVars, banVars, postVars, cacheVars, quotaVars>>

\* lines 24-50 on the argument
SubmitArg(r) ==
  /\ req[r].pc = "typing"
  /\ req[r].kind = "arg"
  /\ req' = [req EXCEPT
       ![r].status =
         IF ~Falsy(req[r].argType, req[r].content)
              /\ containsProfanity(req[r].content)
           THEN "400" ELSE "clean",
       ![r].tried = WordsTried(req[r].argType, req[r].content),
       ![r].pc = "done"]
  /\ UNCHANGED <<now, limVars, banVars, postVars, cacheVars, quotaVars>>

\* one argument at a time: a string, null or undefined; the strings are
\* of letters, a capital, digits that stand for a letter, a digit that
\* stands for none, and a hyphen
NextArg ==
  \/ \E r \in Reqs : Finish(r)
  \/ /\ Settled
     /\ \/ /\ ~InFlight
           /\ \E r \in Reqs, type \in {"string", "null", "undefined"} :
                StartArg(r, type)
        \/ \E r \in Reqs, c \in {"s", "e", "x", "E", "3", "1", "2", "-"} :
             TypeChar(r, c)
        \/ \E r \in Reqs : SubmitArg(r)

SpecArg == InitSpell /\ [][NextArg]_vars

\* C23: containsProfanity answers false for the empty string, for null
\* and for undefined, and looks at no banned word before it answers
C23_EmptyIsClean ==
  \A r \in Reqs :
    (/\ req[r].kind = "arg"
     /\ req[r].pc = "done"
     /\ (req[r].argType \in {"null", "undefined"} \/ req[r].content = <<>>))
      => (req[r].status = "clean" /\ req[r].tried = 0)

\* the empty string was passed and answered
C23_Witness ==
  \E r \in Reqs :
    /\ req[r].kind = "arg"
    /\ req[r].pc = "done"
    /\ req[r].argType = "string"
    /\ req[r].content = <<>>
    /\ req[r].status = "clean"

\* C24: normalizing a normalized text changes nothing:
\* normalize(normalize(x)) = normalize(x) for every text x
C24_NormalizeIdempotent ==
  \A r \in Reqs :
    req[r].kind = "arg" =>
      normalize(normalize(req[r].content)) = normalize(req[r].content)

\* a text with a capital, a digit that stands for a letter and a hyphen,
\* which normalize changes on the first pass
C24_Witness ==
  \E r \in Reqs :
    /\ req[r].kind = "arg"
    /\ \E i, j, k \in 1..Len(req[r].content) :
         /\ req[r].content[i] = "E"
         /\ req[r].content[j] \in {"1", "3"}
         /\ req[r].content[k] = "-"
    /\ normalize(req[r].content) # req[r].content
    /\ Len(normalize(req[r].content)) = 2

-----------------------------------------------------------------------------
\* The order of the checks of POST /api/posts and POST /api/comments

\* C25: a request of a banned author whose text is profane is answered
\* as banned (403), not as profane (400): the ban is checked before the
\* text
C25_BanBeforeProfanity ==
  \A r \in Reqs :
    (/\ req[r].kind = "post"
     /\ req[r].pc = "done"
     /\ req[r].profane
     /\ BanActive(bans[req[r].nick], now))
      => req[r].status = "403"

-----------------------------------------------------------------------------
\* The limiter at the edge of its window, with the admissions of one key
\* logged instant by instant

\* the key whose admissions are logged
Logged == "ann"

InitBurst ==
  /\ now = 0
  /\ rate_limits = [k \in Nicks |-> NoRow]
  /\ rlChecks = [k \in Nicks |-> 0]
  /\ rlAdmitted = [k \in Nicks |-> 0]
  /\ rlLast = [k \in Nicks |-> FALSE]
  /\ rlLog = [k \in Nicks |->
               IF k = Logged THEN [t \in Instants(WINDOW) |-> 0]
               ELSE [t \in {} |-> 0]]
  /\ rlDenied = [k \in Nicks |-> FALSE]
  /\ BansAtStart
  /\ PostsAtStart
  /\ CachesAtStart
  /\ QuotaAtStart
  /\ ReqsAtStart

NextBurst ==
  \/ rateLimit(Logged)
  \/ TickLimiter

SpecBurst == InitBurst /\ [][NextBurst]_vars

\* C26: a rateLimit call starts a new window (count 1, window_start now,
\* allowed) exactly when the key has no row or now - window_start is more
\* than 60000; a call at window_start + 60000 is in the old window: it is
\* decided on the old count and leaves window_start alone
C26_ResetOnlyAfterWindow ==
  \A k \in Nicks :
    IsRateLimitStep(k) =>
      IF ~rate_limits[k].present \/ now - rate_limits[k].window_start > WINDOW
        THEN /\ rate_limits'[k] =
                  [present |-> TRUE, count |-> 1, window_start |-> now]
             /\ rlLast'[k]
        ELSE /\ rate_limits'[k].window_start = rate_limits[k].window_start
             /\ rate_limits'[k] #
                  [present |-> TRUE, count |-> 1, window_start |-> now]
             /\ rlLast'[k] = (rate_limits[k].count < CAP)
             /\ rate_limits'[k].count =
                  rate_limits[k].count + (IF rate_limits[k].count < CAP THEN 1 ELSE 0)

C26_ResetExactlyWhenExpired == [][C26_ResetOnlyAfterWindow]_vars

\* a call made exactly 60000 ms after window_start was admitted into the
\* old window
C26_Witness ==
  /\ rate_limits[Logged].window_start = 0
  /\ now = WINDOW
  /\ rlLog[Logged][WINDOW] >= 1
  /\ rate_limits[Logged].count >= 2

\* C27: a denied rateLimit call leaves the row of its key (count and
\* window_start) and the rows of all other keys as they are; an allowed
\* call inside the current window adds one to the count of its key,
\* leaves window_start alone and touches no other key
C27_FrameOfCall ==
  \A k \in Nicks :
    IsRateLimitStep(k) =>
      /\ \A j \in Nicks \ {k} : rate_limits'[j] = rate_limits[j]
      /\ ~rlLast'[k] => rate_limits'[k] = rate_limits[k]
      /\ ( /\ rlLast'[k]
           /\ rate_limits[k].present
           /\ now - rate_limits[k].window_start <= WINDOW ) =>
           rate_limits'[k] =
             [rate_limits[k] EXCEPT !.count = rate_limits[k].count + 1]

C27_DeniedChangesNothing == [][C27_FrameOfCall]_vars

\* a key was denied at the cap while another key has a row of its own
C27_Witness ==
  \E k, j \in Nicks :
    /\ k # j
    /\ ~rlLast[k] /\ rlChecks[k] > CAP /\ rate_limits[k].count = CAP
    /\ rate_limits[j].present /\ rate_limits[j].count \in 2..(CAP - 1)

\* the calls a log holds at the instants of S
RECURSIVE SumLog(_, _)
SumLog(log, S) ==
  IF S = {} THEN 0
  ELSE LET t == CHOOSE u \in S : TRUE
       IN log[t] + SumLog(log, S \ {t})

\* the calls of key k admitted from instant a to instant b
AdmittedIn(k, a, b) ==
  SumLog(rlLog[k], {t \in DOMAIN rlLog[k] : a <= t /\ t <= b})

\* key k filled one window, all calls but the first at its last instant,
\* and filled the next window at the instant of the reset
Burst(k) ==
  LET ws == rate_limits[k].window_start
  IN /\ rate_limits[k].count = CAP
     /\ {ws - 1, ws} \subseteq DOMAIN rlLog[k]
     /\ rlLog[k][ws] = CAP
     /\ rlLog[k][ws - 1] = CAP - 1
     /\ AdmittedIn(k, ws - 1 - WINDOW, ws - 1) = CAP

\* C28 as stated: at such a burst 2 x cap (40) calls of the key were
\* admitted within a span shorter than the window: 20 at the end of one
\* window and 20 right after the reset
C28_FortyInShortSpan ==
  \A k \in Nicks :
    Burst(k) =>
      \E a, b \in DOMAIN rlLog[k] :
        a <= b /\ b - a < WINDOW /\ AdmittedIn(k, a, b) = 2 * CAP

\* C28, amended: the first call of a window is admitted at window_start
\* and the reset comes more than 60000 ms later, so a span shorter than
\* the window never holds more than 2 x cap - 1 (39) admitted calls of one
\* key, and at such a burst it holds 39: 19 at the end of one window and
\* 20 right after the reset
C28_ThirtyNineInShortSpan ==
  \A k \in Nicks :
    /\ \A a, b \in DOMAIN rlLog[k] :
         (a <= b /\ b - a < WINDOW) => AdmittedIn(k, a, b) <= 2 * CAP - 1
    /\ Burst(k) =>
         \E a, b \in DOMAIN rlLog[k] :
           a <= b /\ b - a < WINDOW /\ AdmittedIn(k, a, b) = 2 * CAP - 1

\* the burst happened
C28_Witness == Burst(Logged) /\ now = rate_limits[Logged].window_start

\* C29: in every interval no longer than the window (60000 ms) at most
\* 2 x cap (40) calls of one key are admitted
C29_AtMostTwiceCap ==
  \A k \in Nicks :
    \A a, b \in DOMAIN rlLog[k] :
      (a <= b /\ b - a <= WINDOW) => AdmittedIn(k, a, b) <= 2 * CAP

\* an interval as long as the window that holds calls of two windows, more
\* than the cap in all
C29_Witness ==
  \E a, b \in DOMAIN rlLog[Logged] :
    /\ b - a = WINDOW
    /\ rlLog[Logged][a] >= 1
    /\ rlLog[Logged][b] >= 1
    /\ rate_limits[Logged].window_start = b
    /\ AdmittedIn(Logged, a, b) > CAP

-----------------------------------------------------------------------------
\* A key that keeps calling while the clock moves on

SpecRetry ==
  /\ SpecLimiter
  /\ WF_vars(TickLimiter)
  /\ \A k \in Nicks : WF_vars(rateLimit(k))

\* a denied call leaves window_start where it is, and the first call made
\* more than 60000 ms after window_start is admitted
C30_DenialKeepsWindow ==
  \A k \in Nicks :
    IsRateLimitStep(k) =>
      /\ ~rlLast'[k] =>
           rate_limits'[k].window_start = rate_limits[k].window_start
      /\ ( /\ rlDenied[k]
           /\ now - rate_limits[k].window_start > WINDOW ) => rlLast'[k]

\* C30: a denied key is admitted again by the first call made more than
\* 60000 ms after its window_start; denied calls do not move window_start,
\* so a key that keeps calling while the clock moves on is admitted in the
\* end (wherever the clock of the model has an instant past the window)
C30_DeniedIsAdmittedAgain ==
  /\ [][C30_DenialKeepsWindow]_vars
  /\ \A k \in Nicks :
       ( /\ rate_limits[k].present
         /\ ~rlLast[k]
         /\ rate_limits[k].window_start + WINDOW < MaxPeriods * WINDOW + MaxOffset )
         ~> rlLast[k]

\* a key that was denied is in a later window, admitted by its first call
C30_Witness ==
  \E k \in Nicks :
    /\ rlDenied[k]
    /\ rlLast[k]
    /\ rate_limits[k].window_start > WINDOW
    /\ rate_limits[k].count = 1

-----------------------------------------------------------------------------
\* What one checkBan call does to the table bans

\* a step of checkBan in request r: with no row it returns null, with a
\* permanent row or one whose banned_until is now or later it returns
\* the row it read, and in both cases the table is left as it is; the
\* table changes in a step of a request only if the request read an
\* expired row
C31_OnlyExpiredTouchesStore ==
  \A r \in Reqs :
    /\ (req'[r] # req[r] /\ bans' # bans) =>
         /\ req[r].row.present
         /\ req[r].row.banned_until # -1
         /\ req[r].row.banned_until < now
    /\ (req[r].pc = "ban_fetched" /\ req'[r] # req[r]) =>
         /\ ~req[r].row.present =>
              (~req'[r].ban.present /\ req'[r].pc # "ban_delete" /\ bans' = bans)
         /\ ( /\ req[r].row.present
              /\ (req[r].row.banned_until = -1 \/ req[r].row.banned_until >= now) ) =>
              (req'[r].ban = req[r].row /\ req'[r].pc # "ban_delete" /\ bans' = bans)

C32_ConcurrentExpiredResolve ==
  \A r \in Reqs :
    ( /\ req[r].expired
      /\ req[r].pc \in {"ban_deleted", "done"}
      /\ banDeletes[req[r].row.ver] >= 2 ) =>
      /\ req[r].status # "500"
      /\ ~req[r].ban.present
      /\ BanReturned(r) => req[r].status = "200"
      /\ \A n \in Names : bans[n].present => bans[n].ver # req[r].row.ver

\* the second of two calls that read the same expired row has returned
\* null, after its DELETE found the row already deleted
C32_Witness ==
  \E r \in Reqs :
    /\ BanReturned(r)
    /\ req[r].expired
    /\ banDeletes[req[r].row.ver] = 2
    /\ ~req[r].ban.present
    /\ ~bans[req[r].nick].present

-----------------------------------------------------------------------------
\* Refreshes of one cache slot that overlap

\* ann posts while the post list and the global feed are read, the
\* requests overlapping in any way
NextRefresh ==
  \/ \E r \in Reqs : Finish(r)
  \/ /\ Settled
     /\ \/ \E r \in Reqs : StartPost(r, "ann", FALSE, TRUE, FALSE)
        \/ \E r \in Reqs : BanSelectExec(r)
        \/ \E r \in Reqs : BanDecide(r)
        \/ \E r \in Reqs : PostInsertExec(r)
        \/ \E r \in Reqs : PostInsertReturn(r)
        \/ \E r \in Reqs : StartRss(r)
        \/ \E r \in Reqs : RssSelectExec(r)
        \/ \E r \in Reqs : RssStore(r)
        \/ \E r \in Reqs : StartPostList(r)
        \/ \E r \in Reqs : ListSelectExec(r)
        \/ \E r \in Reqs : ListStore(r)
        \/ \E r \in Reqs : ListCommentsExec(r)
        \/ TickRace

SpecRefresh == InitRace /\ [][NextRefresh]_vars

\* a step that changes a slot is the write of one refresh, which puts its
\* own rows and its own now into the slot together (or, for the global
\* feed, the invalidation by a post, which sets the timestamp to 0); and
\* the write of a refresh leaves the slot holding exactly its pair
C33_WritesAreWhole ==
  /\ postCache' # postCache =>
       \E r \in Reqs :
         /\ req[r].pc = "pl_fetched" /\ req'[r] # req[r]
         /\ postCache' = [data |-> req[r].feed.ids, timestamp |-> req[r].t]
  /\ rssGlobal' # rssGlobal =>
       \/ \E r \in Reqs :
            /\ req[r].pc = "rss_fetched" /\ req'[r] # req[r]
            /\ rssGlobal' = [data |-> req[r].feed, timestamp |-> req[r].t]
       \/ \E r \in Reqs :
            /\ req[r].pc = "post_inserted" /\ req'[r] # req[r]
            /\ rssGlobal' = [rssGlobal EXCEPT !.timestamp = 0]
  /\ \A r \in Reqs :
       /\ (req[r].pc = "pl_fetched" /\ req'[r] # req[r]) =>
            postCache' = [data |-> req[r].feed.ids, timestamp |-> req[r].t]
       /\ (req[r].pc = "rss_fetched" /\ req'[r] # req[r]) =>
            rssGlobal' = [data |-> req[r].feed, timestamp |-> req[r].t]

\* C33: when refreshes of one cache slot overlap (two reads that both
\* found it stale), each refresh writes its value and its timestamp in one
\* step, so the slot never holds the value of one refresh with the
\* timestamp of another, and after the refreshes the slot holds what the
\* last writer wrote
C33_LastWriterWins == [][C33_WritesAreWhole]_vars

\* two reads of the post list found the same stale slot and both wrote;
\* the one that had read the clock first wrote last, and the slot holds
\* its rows under its timestamp
C33_Witness ==
  \E r, q \in Reqs :
    /\ r # q
    /\ req[r].kind = "list" /\ req[q].kind = "list"
    /\ req[r].queried /\ req[q].queried
    /\ req[r].pc = "pl_comments" /\ req[q].pc = "pl_comments"
    /\ req[r].seen = req[q].seen
    /\ req[r].t < req[q].t
    /\ postCache = [data |-> req[r].feed.ids, timestamp |-> req[r].t]

-----------------------------------------------------------------------------
\* Deletions of posts and the feeds served after them

\* DELETE /api/admin/post/:id, lines 1256-1260: the deletes are sent
StartAdminPostDelete(r, id) ==
  /\ FreeSlot(r)
  /\ req' = [req EXCEPT ![r] =
       [IdleReq EXCEPT !.kind = "admin-post", !.postId = id, !.pc = "ap_delete"]]
  /\ UNCHANGED <<now, limVars, banVars, postVars, cacheVars, quotaVars>>

\* line 1261: DELETE FROM posts WHERE id = $1 runs in the database
AdminPostDeleteExec(r) ==
  /\ req[r].pc = "ap_delete"
  /\ posts' = {p \in posts : p.id # req[r].postId}
  /\ req' = [req EXCEPT ![r].pc = "ap_deleted"]
  /\ UNCHANGED <<now, limVars, banVars, users, postSeq, cacheVars, quotaVars>>

\* lines 1263-1265: the global slot is invalidated, 200 goes out
AdminPostDeleteReturn(r) ==
  /\ req[r].pc = "ap_deleted"
  /\ rssGlobal' = [rssGlobal EXCEPT !.timestamp = 0]
  /\ rssInvalid' = TRUE
  /\ req' = [req EXCEPT ![r].status = "200", ![r].pc = "done"]
  /\ UNCHANGED <<now, limVars, banVars, postVars, rssUsers, postCache,
                 published, listWritten, quotaVars>>

\* one request at a time: ann posts, the feeds are read, a moderator
\* deletes a post, ann deletes her account
NextPurge ==
  \/ \E r \in Reqs : Finish(r)
  \/ /\ Settled
     /\ \/ /\ ~InFlight
           /\ \/ \E r \in Reqs : StartPost(r, "ann", FALSE, TRUE, FALSE)
              \/ \E r \in Reqs : StartRss(r)
              \/ \E r \in Reqs : StartRssUser(r, "ann")
              \/ \E r \in Reqs, id \in 1..MaxPosts : StartAdminPostDelete(r, id)
              \/ \E r \in Reqs : StartAccountDelete(r, "ann")
        \/ FeedSteps
        \/ \E r \in Reqs : AdminPostDeleteExec(r)
        \/ \E r \in Reqs : AdminPostDeleteReturn(r)
        \/ \E r \in Reqs : AccountPostsExec(r)
        \/ \E r \in Reqs : AccountUserExec(r)
        \/ \E r \in Reqs : AccountDeleteReturn(r)
        \/ TickRace

SpecPurge == InitRace /\ [][NextPurge]_vars

\* a GET /rss.xml that is answered at once is answered with the posts
\* that are stored
C34_Global ==
  \A r \in Reqs :
    (Arrives(r, "rss") /\ req'[r].pc = "done") =>
      req'[r].feed.ids = {p.id : p \in posts}

\* a GET /rss/:nickname.xml that is answered at once is answered with the
\* stored posts of the author
C34_Author ==
  \A r \in Reqs :
    (Arrives(r, "rss-user") /\ req'[r].pc = "done") =>
      req'[r].feed.ids = {p.id : p \in {x \in posts : x.nickname = req'[r].nick}}

\* C34: every successful operation that changes the stored posts (a new
\* post, the deletion of a post by a moderator, the deletion of an
\* account) invalidates the global feed and the feed of each author whose
\* posts changed before it answers, so no feed read after it still shows
\* the posts as they were
C34_WritesInvalidateFeeds == [][C34_Global /\ C34_Author]_vars

-----------------------------------------------------------------------------
\* What one validateApiKey call does to the row of its key

\* the step that answers 429 leaves every row as it is; the UPDATE of a
\* request that is passed on adds one to requests_today of its key, sets
\* last_used to the Date.now() of the request, and touches nothing else
C35_RowSteps ==
  \A r \in Reqs :
    /\ (Moves(r) /\ req'[r].status = "429") => api_keys' = api_keys
    /\ (req[r].pc = "key_incr" /\ Moves(r)) =>
         /\ req[r].t <= now
         /\ api_keys[req[r].nick].present =>
              api_keys'[req[r].nick] =
                [api_keys[req[r].nick] EXCEPT
                   !.requests_today = api_keys[req[r].nick].requests_today + 1,
                   !.last_used = req[r].t]
         /\ \A k \in ApiKeys \ {req[r].nick} : api_keys'[k] = api_keys[k]

\* a request answered 429 read a spent quota with no reset due and has
\* sent no UPDATE
C35_Outcome ==
  \A r \in Reqs :
    (req[r].kind = "api" /\ req[r].status = "429") =>
      /\ ~req[r].reset
      /\ req[r].key.requests_today >= DAILY_CAP
      /\ req[r].t - req[r].key.last_reset <= dayInMs

\* C35: a request denied for quota (requests_today at or above 1000, no
\* reset due) leaves requests_today, last_reset and last_used of its key
\* unchanged; a request that is admitted adds exactly one to
\* requests_today and sets last_used to its now
C35_QuotaFrame == []C35_Outcome /\ [][C35_RowSteps]_vars

\* while one request was being passed on another was denied at the cap,
\* and the row holds the cap and the time of the one passed on
C35_Witness ==
  \E r, q \in Reqs :
    /\ req[r].kind = "api" /\ req[r].pc = "done" /\ req[r].status = "429"
    /\ req[q].kind = "api" /\ req[q].pc = "key_incr_done"
    /\ req[q].nick = req[r].nick
    /\ api_keys[req[r].nick].requests_today = DAILY_CAP
    /\ api_keys[req[r].nick].last_used = req[q].t

-----------------------------------------------------------------------------
\* The counter of a key against the requests passed on

\* the requests passed on under key k whose Date.now() is not before the
\* stored last_reset
AdmittedSinceReset(k) ==
  SumLog(qLog[k], {t \in DOMAIN qLog[k] : t >= api_keys[k].last_reset})

\* C36: however validateApiKey calls for one key overlap, no request passed
\* on under the key since the stored last_reset is missing from
\* requests_today (read when no call is under way): when two calls both
\* find last_reset more than 24 h old, the reset of the second does not
\* wipe a request the first has already passed on
C36_NoAdmittedErased ==
  \A k \in ApiKeys :
    (api_keys[k].present /\ ~InFlight) =>
      api_keys[k].requests_today >= AdmittedSinceReset(k)

----------------------------------------------------------------------------
(* The keys of one owner: POST /api/keys/create and DELETE /api/keys/:key *)

\* part_004:722  existingKeys.rows[0].c >= 3
MaxKeysPerUser == 3

\* lines 714-718: 400 on a missing field or a name above 50 characters,
\* else the SELECT FROM users is sent with the lower-cased nickname
StartKeyCreate(r, nickname, wellFormed) ==
  /\ FreeSlot(r)
  /\ req' = [req EXCEPT ![r] =
       IF ~wellFormed
         THEN [IdleReq EXCEPT !.kind = "key-create", !.status = "400",
                              !.pc = "done"]
         ELSE [IdleReq EXCEPT !.kind = "key-create", !.nick = Lower(nickname),
                              !.pc = "kc_user"]]
  /\ UNCHANGED <<now, limVars, banVars, postVars, cacheVars, quotaVars>>

\* lines 718-721: 404 for an unknown user, else the SELECT COUNT(*) is sent
KeyUserReturn(r) ==
  /\ req[r].pc = "kc_user"
  /\ req' = [req EXCEPT ![r] =
       IF req[r].nick \in users THEN [@ EXCEPT !.pc = "kc_count"]
       ELSE [@ EXCEPT !.status = "404", !.pc = "done"]]
  /\ UNCHANGED <<now, limVars, banVars, postVars, cacheVars, quotaVars>>

\* line 721: the SELECT COUNT(*) runs in the database
KeyCountExec(r) ==
  /\ req[r].pc = "kc_count"
  /\ req' = [req EXCEPT ![r].seen = ownerKeys[req[r].nick],
                        ![r].pc = "kc_counted"]
  /\ UNCHANGED <<now, limVars, banVars, postVars, cacheVars, quotaVars>>

\* lines 722-729: 400 at three keys, else the key is made and the INSERT sent
KeyCountReturn(r) ==
  /\ req[r].pc = "kc_counted"
  /\ req' = [req EXCEPT ![r] =
       IF req[r].seen >= MaxKeysPerUser
         THEN [@ EXCEPT !.status = "400", !.pc = "done"]
         ELSE [@ EXCEPT !.t = now, !.pc = "kc_insert"]]
  /\ UNCHANGED <<now, limVars, banVars, postVars, cacheVars, quotaVars>>

\* lines 729-732: the INSERT runs in the database
KeyInsertExec(r) ==
  /\ req[r].pc = "kc_insert"
  /\ ownerKeys' = [ownerKeys EXCEPT ![req[r].nick] = @ + 1]
  /\ req' = [req EXCEPT ![r].pc = "kc_inserted"]
  /\ UNCHANGED <<now, limVars, banVars, postVars, cacheVars, api_keys,
                 qAdmitted, qCalls, qLog,
                 pendingTokens, rngLinks>>

\* line 734: the key is sent back
KeyInsertReturn(r) ==
  /\ req[r].pc = "kc_inserted"
  /\ req' = [req EXCEPT ![r].status = "200", ![r].pc = "done"]
  /\ UNCHANGED <<now, limVars, banVars, postVars, cacheVars, quotaVars>>

\* lines 748-757: 400 without a nickname, else the DELETE is sent
StartKeyRevoke(r, hasNick, nickname) ==
  /\ FreeSlot(r)
  /\ req' = [req EXCEPT ![r] =
       IF ~hasNick
         THEN [IdleReq EXCEPT !.kind = "key-revoke", !.status = "400",
                              !.pc = "done"]
         ELSE [IdleReq EXCEPT !.kind = "key-revoke", !.nick = Lower(nickname),
                              !.pc = "kd_delete"]]
  /\ UNCHANGED <<now, limVars, banVars, postVars, cacheVars, quotaVars>>

\* lines 754-757: the DELETE runs in the database; it removes one row when
\* the key sent is a key of that owner (mine), none otherwise
KeyRevokeExec(r, mine) ==
  /\ req[r].pc = "kd_delete"
  /\ LET hit == mine /\ ownerKeys[req[r].nick] > 0
     IN /\ ownerKeys' = [ownerKeys EXCEPT ![req[r].nick] =
                           IF hit THEN @ - 1 ELSE @]
        /\ req' = [req EXCEPT ![r].seen = IF hit THEN 1 ELSE 0,
                              ![r].pc = "kd_deleted"]
  /\ UNCHANGED <<now, limVars, banVars, postVars, cacheVars, api_keys,
                 qAdmitted, qCalls, qLog,
                 pendingTokens, rngLinks>>

\* lines 759-763: 404 when no row went, else 200
KeyRevokeReturn(r) ==
  /\ req[r].pc = "kd_deleted"
  /\ req' = [req EXCEPT ![r].status = IF req[r].seen = 0 THEN "404" ELSE "200",
                        ![r].pc = "done"]
  /\ UNCHANGED <<now, limVars, banVars, postVars, cacheVars, quotaVars>>

\* the server has started, ann is registered, nobody holds a key
InitKeys ==
  /\ now = 0
  /\ LimiterAtStart
  /\ BansAtStart
  /\ users = {"ann"}
  /\ posts = {}
  /\ postSeq = 0
  /\ CachesAtStart
  /\ QuotaAtStart
  /\ ReqsAtStart

KeySteps ==
  \/ \E r \in Reqs : KeyUserReturn(r)
  \/ \E r \in Reqs : KeyCountExec(r)
  \/ \E r \in Reqs : KeyCountReturn(r)
  \/ \E r \in Reqs : KeyInsertExec(r)
  \/ \E r \in Reqs : KeyInsertReturn(r)
  \/ \E r \in Reqs, mine \in BOOLEAN : KeyRevokeExec(r, mine)
  \/ \E r \in Reqs : KeyRevokeReturn(r)

\* key creations and revocations arriving at any time
NextKeys ==
  \/ \E r \in Reqs : Finish(r)
  \/ /\ Settled
     /\ \/ \E r \in Reqs, n \in Names, w \in BOOLEAN : StartKeyCreate(r, n, w)
        \/ \E r \in Reqs, h \in BOOLEAN, n \in Names : StartKeyRevoke(r, h, n)
        \/ KeySteps

SpecKeys == InitKeys /\ [][NextKeys]_vars

\* C37: an owner never holds more than 3 API keys, whatever the sequence and
\* the overlap of the key creations and revocations for that owner
C37_AtMostThreeKeys == \A o \in Nicks : ownerKeys[o] <= MaxKeysPerUser

----------------------------------------------------------------------------
(* The ban of a nickname and the letter case of the nickname sent *)

\* posts sent under a nickname in any letter case (server.js:705 takes
\* req.body.nickname as it comes), bans of the registered nicknames
NextCase ==
  \/ \E r \in Reqs : Finish(r)
  \/ /\ Settled
     /\ \/ \E r \in Reqs, n \in Names, lim, ok, prof \in BOOLEAN :
             StartPost(r, n, lim, ok, prof)
        \/ \E r \in Reqs : BanSelectExec(r)
        \/ \E r \in Reqs : BanDecide(r)
        \/ \E r \in Reqs : BanDeleteExec(r)
        \/ \E r \in Reqs : BanDeleteReturn(r)
        \/ \E r \in Reqs : PostInsertExec(r)
        \/ \E r \in Reqs : PostInsertReturn(r)
        \/ \E n \in Nicks, inf \in BOOLEAN, d \in BanDays : AdminBan(n, inf, d)
        \/ \E n \in Nicks : AdminUnban(n)
        \/ TickPost

SpecCase == InitPost /\ [][NextCase]_vars

\* the lookup of checkBan for a post finds the running ban stored under the
\* lower-cased nickname
C38_LookupFindsBan ==
  \A r \in Reqs :
    (/\ req[r].kind = "post"
     /\ req[r].pc = "ban_select"
     /\ Moves(r)
     /\ BanActive(bans[Lower(req[r].nick)], now)) =>
      req'[r].row.present

\* C38: a ban recorded for a nickname blocks the posts of every request
\* whose nickname equals it up to letter case: the ban check of a post sent
\* under another letter case of a banned, registered nickname finds the ban
C38_BanBlocksAnyCase == [][C38_LookupFindsBan]_vars

----------------------------------------------------------------------------
(* Verification tokens: GET /verify-rng and POST /api/rng-link *)

\* part_002:100-109: the token is registered (again); the handler has no
\* await, so it runs in one step. Without a token it answers 400 and
\* changes nothing.
VerifyRng(tk) ==
  /\ pendingTokens' = pendingTokens \cup {tk}
  /\ rngLinks' = [rngLinks EXCEPT ![tk] = 0]
  /\ UNCHANGED <<now, limVars, banVars, postVars, cacheVars, api_keys,
                 qAdmitted, qCalls, qLog, ownerKeys, req>>

\* part_002:578-591: 400 on missing data or a token that is not pending,
\* else the UPDATE of users is sent
StartRngLink(r, hasData, tk) ==
  /\ FreeSlot(r)
  /\ req' = [req EXCEPT ![r] =
       IF ~hasData \/ tk \notin pendingTokens
         THEN [IdleReq EXCEPT !.kind = "rng-link", !.token = tk,
                              !.status = "400", !.pc = "done"]
         ELSE [IdleReq EXCEPT !.kind = "rng-link", !.token = tk,
                              !.pc = "rl_update"]]
  /\ UNCHANGED <<now, limVars, banVars, postVars, cacheVars, quotaVars>>

\* part_002:588-591: the UPDATE runs in the database (the column rng_linked
\* is read by no handler)
RngLinkExec(r) ==
  /\ req[r].pc = "rl_update"
  /\ req' = [req EXCEPT ![r].pc = "rl_updated"]
  /\ UNCHANGED <<now, limVars, banVars, postVars, cacheVars, quotaVars>>

\* part_002:593-595: the token is deleted, then 200
RngLinkReturn(r) ==
  /\ req[r].pc = "rl_updated"
  /\ pendingTokens' = pendingTokens \ {req[r].token}
  /\ rngLinks' = [rngLinks EXCEPT ![req[r].token] = @ + 1]
  /\ req' = [req EXCEPT ![r].status = "200", ![r].pc = "done"]
  /\ UNCHANGED <<now, limVars, banVars, postVars, cacheVars, api_keys,
                 qAdmitted, qCalls, qLog, ownerKeys>>

\* registrations and link requests arriving at any time
NextLink ==
  \/ \E r \in Reqs : Finish(r)
  \/ /\ Settled
     /\ \/ \E tk \in Tokens : VerifyRng(tk)
        \/ \E r \in Reqs, h \in BOOLEAN, tk \in Tokens : StartRngLink(r, h, tk)
        \/ \E r \in Reqs : RngLinkExec(r)
        \/ \E r \in Reqs : RngLinkReturn(r)

SpecLink == InitBan /\ [][NextLink]_vars

\* C39: a token registered by /verify-rng authorises at most one successful
\* /api/rng-link: once a link has succeeded the token is no longer pending,
\* and of the link requests carrying the same token, overlapping or not, at
\* most one succeeds
C39_TokenLinksOnce == \A tk \in Tokens : rngLinks[tk] <= 1

----------------------------------------------------------------------------
(* What a flagged text holds of a banned word *)

\* the letters w[j..] occur in this order in s[i..]
RECURSIVE SubsequenceFrom(_, _, _, _)
SubsequenceFrom(w, j, s, i) ==
  IF j > Len(w) THEN TRUE
  ELSE IF i > Len(s) THEN FALSE
  ELSE IF s[i] = w[j] THEN SubsequenceFrom(w, j + 1, s, i + 1)
  ELSE SubsequenceFrom(w, j, s, i + 1)

\* the raw text read without regard to letter case
CaseFolded(text) == [i \in 1..Len(text) |-> toLowerCase(text[i])]

\* some banned word is a subsequence of the raw text, letter case apart
InRawText(text) ==
  \E k \in 1..Len(bannedWords) :
    SubsequenceFrom(bannedWords[k], 1, CaseFolded(text), 1)

\* some banned word is a subsequence of the normalized text
InNormalizedText(text) ==
  \E k \in 1..Len(bannedWords) :
    SubsequenceFrom(bannedWords[k], 1, normalize(text), 1)

\* C40: containsProfanity answers true only for a text in which the letters
\* of some banned word occur in order, in the raw text (letter case apart)
\* or in the normalized text; a text with no such subsequence is not flagged
C40_FlaggedHoldsWord ==
  \A r \in Reqs :
    (/\ req[r].kind \in {"arg", "text"}
     /\ req[r].pc = "done"
     /\ req[r].status = "400") =>
      (InRawText(req[r].content) \/ InNormalizedText(req[r].content))

\* a text was flagged whose word shows in the normalized text only, and a
\* text of the same length without the word would have passed
C40_Witness ==
  \E r \in Reqs :
    /\ req[r].kind = "arg"
    /\ req[r].pc = "done"
    /\ req[r].status = "400"
    /\ ~InRawText(req[r].content)
    /\ InNormalizedText(req[r].content)
    /\ ~containsProfanity(Tail(req[r].content) \o <<"s">>)

====
